---- MODULE Spec2Model ----
(***************************************************************************)
(* A model of the identifier resolvers of the gitlab-api client            *)
(* (src/src/gitlab.rs): GitLab::get_project, GitLab::high_level_get (used  *)
(* by get_issue and get_merge_request), the Lister operations list and     *)
(* list_paginated they call, and GitLab::get, against a server that holds  *)
(* a list of project search results and a list of issues/merge requests.   *)
(***************************************************************************)
EXTENDS Integers, Sequences, FiniteSets, TLC

(***************************************************************************)
(* Bounds of the model.                                                    *)
(***************************************************************************)
\* largest number of projects the server's name search returns
MaxProjects == 43
\* largest number of issues / merge requests of the resolved project
MaxItems == 43
\* largest number of requests one resolution may issue in the model
MaxRequests == 5

(***************************************************************************)
(* Program constants.                                                      *)
(***************************************************************************)
\* `let pagination_per_page = 20;` in get_project
gp_pagination_per_page == 20
\* `let pagination_per_page = 20;` in high_level_get
hl_pagination_per_page == 20

(***************************************************************************)
(* The arguments of the resolution calls, and the values the server data   *)
(* is built around.                                                        *)
(***************************************************************************)
Namespaces == {"group"}
Names == {"proj"}
Iids == {7}

\* Option<u16>: None is the empty set, Some(v) the singleton {v}
None == {}
Some(v) == {v}

\* Result<T>: value is <<>> for an error, err is the chain of error
\* descriptions, outermost context first
Ok(v) == [ok |-> TRUE, value |-> v, err |-> <<>>]
Err(chain) == [ok |-> FALSE, value |-> <<>>, err |-> chain]
NoResult == [ok |-> FALSE, value |-> <<>>, err |-> <<"pending">>]

\* chain_err: wrap an error with one more context, leave Ok untouched
chain_err(r, context) == IF r.ok THEN r ELSE Err(<<context>> \o r.err)

Min(a, b) == IF a < b THEN a ELSE b
Last(s) == s[Len(s)]

VARIABLES
  server_projects,          \* the server's result list of the name search
  server_items,             \* the server's issues / merge requests listing
  server_default_per_page,  \* page size the server uses when none is asked
  pc,                       \* position of the resolution call
  op,                       \* the public method that was called
  namespace, name, iid,     \* its arguments
  gp_pagination_page,       \* pagination_page of get_project
  hl_pagination_page,       \* pagination_page of high_level_get
  projects,                 \* last page received by get_project
  project,                  \* high_level_get's resolved project (<<>> or <<p>>)
  found_items,              \* last page received by high_level_get
  requests,                 \* every request issued by the call, in order
  responses,                \* what happened to each of them, in order
  result,                   \* what the call returned
  calls,                    \* number of the resolution call under way
  prev_requests,            \* the requests of the call before this one
  prev_responses,           \* what happened to each of them
  prev_result,              \* what the call before this one returned
  lister,                   \* the lister a caller builds
  log,                      \* the calls made on the lister, in order
  query,                    \* the last output of build_query ("" if outdated)
  client,                   \* what GitLab::new / new_insecure returned
  url,                      \* the URL of the last request of the client
  debug,                    \* the last Debug rendering
  other,                    \* a second projects listing, to compare with
  other_query,              \* what build_query returned for it
  listing_size              \* number of items of a listing too long to hold

\* what is kept about the resolution call before this one
repeat_vars == <<calls, prev_requests, prev_responses, prev_result>>
\* a lister in the hands of a caller
builder_vars == <<lister, log, query>>

\* a client: its construction, the URLs it builds, its Debug rendering
client_vars == <<client, url, debug>>
\* the second listing of a comparison of two
pair_vars == <<other, other_query>>
\* what only some of the specifications below use
side_vars == <<client_vars, pair_vars, listing_size>>

vars == <<server_projects, server_items, server_default_per_page, pc, op,
          namespace, name, iid, gp_pagination_page, hl_pagination_page,
          projects, project, found_items, requests, responses,
          result, repeat_vars, builder_vars, side_vars>>

(***************************************************************************)
(* Server data.  Every project of the search result has a name containing  *)
(* the searched name; the entries that are not the wanted project are      *)
(* near misses: same name in another namespace, a longer name in the same  *)
(* namespace, or both different.                                           *)
(***************************************************************************)
ProjectAt(i, ns, nm, m, twin) ==
  IF i = m \/ (twin /\ m > 0 /\ i = m + 1)
    THEN [id |-> 100 + i, namespace |-> ns, name |-> nm]
    ELSE CASE i % 3 = 0 -> [id |-> 100 + i, namespace |-> "other", name |-> nm]
           [] i % 3 = 1 -> [id |-> 100 + i, namespace |-> ns, name |-> "proj-web"]
           [] OTHER     -> [id |-> 100 + i, namespace |-> "other", name |-> "proj-web"]

ProjectsData(n, ns, nm, m, twin) == [i \in 1..n |-> ProjectAt(i, ns, nm, m, twin)]

\* items of the project `pid`: the item at position m (and m + 1 with twin)
\* carries the wanted iid; the others carry another iid, and the item at
\* position `want` has the wanted number as its id, not as its iid
ItemAt(i, pid, want, m, twin) ==
  IF i = m \/ (twin /\ m > 0 /\ i = m + 1)
    THEN [id |-> 500 + i, iid |-> want, project_id |-> pid]
    ELSE [id |-> i, iid |-> 1000 + i, project_id |-> pid]

ItemsData(n, pid, want, m, twin) == [i \in 1..n |-> ItemAt(i, pid, want, m, twin)]

\* the page of `db` a request for (page, per_page) is answered with
ServerPage(db, page, per_page) ==
  SubSeq(db, (page - 1) * per_page + 1, Min(page * per_page, Len(db)))

\* the records the server answers a request with
ServerReply(req) ==
  LET pg == IF req.page = None THEN 1 ELSE CHOOSE v \in req.page : TRUE
      pp == IF req.per_page = None THEN server_default_per_page
            ELSE CHOOSE v \in req.per_page : TRUE
  IN IF req.resource = "projects"
       THEN ServerPage(server_projects, pg, pp)
       ELSE ServerPage(SelectSeq(server_items,
                                 LAMBDA it : it.project_id \in req.project_id),
                       pg, pp)

\* what can happen to one HTTP request
Outcomes ==
  { [send_ok |-> TRUE,  read_ok |-> TRUE,  status |-> 200, decodes |-> TRUE],
    [send_ok |-> FALSE, read_ok |-> TRUE,  status |-> 200, decodes |-> TRUE],
    [send_ok |-> TRUE,  read_ok |-> FALSE, status |-> 200, decodes |-> TRUE],
    [send_ok |-> TRUE,  read_ok |-> TRUE,  status |-> 404, decodes |-> TRUE],
    [send_ok |-> TRUE,  read_ok |-> TRUE,  status |-> 404, decodes |-> FALSE],
    [send_ok |-> TRUE,  read_ok |-> TRUE,  status |-> 201, decodes |-> TRUE],
    [send_ok |-> TRUE,  read_ok |-> TRUE,  status |-> 200, decodes |-> FALSE] }

(***************************************************************************)
(* GitLab::get: the result of one request, given what happened to it.      *)
(***************************************************************************)
\* faulty variant: a body that does not decode is taken as an empty list
get_undecodable_is_empty(payload, o) ==
  IF ~o.send_ok THEN Err(<<"cannot send request">>)
  ELSE IF ~o.read_ok THEN Err(<<"cannot read response body">>)
  ELSE IF o.status # 200 THEN Err(<<"status code not 200 OK">>)
  ELSE IF ~o.decodes THEN Ok(<<>>)
  ELSE Ok(payload)

get(payload, o) ==
  IF ~o.send_ok THEN Err(<<"cannot send request">>)
  ELSE IF ~o.read_ok THEN Err(<<"cannot read response body">>)
  ELSE IF o.status # 200 THEN Err(<<"status code not 200 OK">>)
  ELSE IF ~o.decodes THEN Err(<<"cannot build Rust struct from JSON data">>)
  ELSE Ok(payload)

(***************************************************************************)
(* Strings.                                                                *)
(***************************************************************************)
\* the value of a Some(v)
Unwrap(o) == CHOOSE v \in o : TRUE

\* i64::to_string: the decimal digits, with a minus sign below zero
RECURSIVE ToDigits(_)
ToDigits(n) ==
  IF n < 10 THEN SubSeq("0123456789", n + 1, n + 1)
  ELSE ToDigits(n \div 10) \o SubSeq("0123456789", (n % 10) + 1, (n % 10) + 1)

to_string(n) == IF n < 0 THEN "-" \o ToDigits(0 - n) ELSE ToDigits(n)

\* str occurs in s
Contains(s, str) ==
  \E i \in 1..(Len(s) - Len(str) + 1) : SubSeq(s, i, i + Len(str) - 1) = str

\* if b { "true" } else { "false" }
bool_str(b) == IF b THEN "true" ELSE "false"

(***************************************************************************)
(* The listers.  One record holds the fields of every lister type; a type  *)
(* uses its own fields and leaves the others as they are created.          *)
(*   merge_requests  MergeRequestsLister    (merge_requests/mod.rs)        *)
(*   issues          the issues lister of a project                        *)
(*   projects        projects::Listing      (projects/mod.rs)              *)
(*   projects_owned  owned::ProjectsLister  (projects/owned.rs)            *)
(*   groups_owned    owned_groups::Listing  (groups/owned_groups.rs)       *)
(***************************************************************************)
\* projects::ListingId: the number of a project or its NAMESPACE/PROJECT_NAME
ListingId_Id(n) == [tag |-> "Id", n |-> n, s |-> ""]
ListingId_NamespaceProject(str) == [tag |-> "NamespaceProject", n |-> 0, s |-> str]

new_lister(kind, id) ==
  [kind |-> kind, id |-> id, listing_id |-> ListingId_Id(0),
   iid |-> None, state |-> None, order_by |-> None, sort |-> None,
   archived |-> None, visibility |-> None, search |-> "",
   search_opt |-> None, simple |-> None]

\* MergeRequestsLister::new(gl, id)
MergeRequestsLister_new(id) == new_lister("merge_requests", id)
\* self.issues().project(project_id)
IssuesLister_new(id) == new_lister("issues", id)
\* projects::Listing::new()
Listing_new == new_lister("projects", 0)
\* owned::ProjectsLister::new(gl)
OwnedLister_new == new_lister("projects_owned", 0)
\* owned_groups::Listing::new()
OwnedGroups_new == new_lister("groups_owned", 0)

\* the setters of MergeRequestsLister
\* faulty variant: the new iids are added to the ones already set
mr_iid_extends(l, v) ==
  [l EXCEPT !.iid = IF l.iid = None THEN Some(v) ELSE Some(Unwrap(l.iid) \o v)]

mr_iid(l, v) == [l EXCEPT !.iid = Some(v)]
\* faulty variant: setting the state takes the sort back out
mr_state_clears_sort(l, v) == [l EXCEPT !.state = Some(v), !.sort = None]

mr_state(l, v) == [l EXCEPT !.state = Some(v)]
mr_order_by(l, v) == [l EXCEPT !.order_by = Some(v)]
mr_sort(l, v) == [l EXCEPT !.sort = Some(v)]

\* the setters of projects::Listing
listing_archived(l, v) == [l EXCEPT !.archived = Some(v)]
listing_visibility(l, v) == [l EXCEPT !.visibility = Some(v)]
listing_order_by(l, v) == [l EXCEPT !.order_by = Some(v)]
listing_sort(l, v) == [l EXCEPT !.sort = Some(v)]
listing_search(l, v) == [l EXCEPT !.search = v]
listing_simple(l, v) == [l EXCEPT !.simple = Some(v)]

\* the setters of owned::ProjectsLister
owned_archived(l, v) == [l EXCEPT !.archived = Some(v)]
owned_visibility(l, v) == [l EXCEPT !.visibility = Some(v)]
owned_order_by(l, v) == [l EXCEPT !.order_by = Some(v)]
owned_sort(l, v) == [l EXCEPT !.sort = Some(v)]
owned_search(l, v) == [l EXCEPT !.search_opt = Some(v)]

\* the fixed strings of the enums
state_str(v) ==
  CASE v = "Merged" -> "merged" [] v = "Opened" -> "opened"
    [] v = "Closed" -> "closed" [] v = "All" -> "all"

mr_order_by_str(v) ==
  CASE v = "CreatedAt" -> "created_at" [] v = "UpdatedAt" -> "updated_at"

order_by_str(v) ==
  CASE v = "Id" -> "id" [] v = "Name" -> "name" [] v = "Path" -> "path"
    [] v = "CreatedAt" -> "created_at" [] v = "UpdatedAt" -> "updated_at"
    [] v = "LastActivityAt" -> "last_activity_at"

sort_str(v) == CASE v = "Asc" -> "asc" [] v = "Desc" -> "desc"

visibility_str(v) ==
  CASE v = "Public" -> "public" [] v = "Internal" -> "internal"
    [] v = "Private" -> "private"

\* query.push_str(split_char); split_char = &amp_char; query.push_str(text)
push_key(acc, text) ==
  [query |-> acc.query \o acc.split_char \o text, split_char |-> "&"]

\* for iid in iid { push(array_split_char); push("iid[]="); push(iid); ... }
RECURSIVE iid_array(_, _)
iid_array(v, k) ==
  IF k > Len(v) THEN ""
  ELSE (IF k = 1 THEN "" ELSE "&") \o "iid[]=" \o to_string(v[k])
       \o iid_array(v, k + 1)

\* faulty variant: the array form is used for a single value too
iid_text_always_array(v) == iid_array(v, 1)

\* the text of the iid block of MergeRequestsLister::build_query
iid_text(v) ==
  IF Len(v) = 1 THEN "iid=" \o to_string(v[1]) ELSE iid_array(v, 1)

\* faulty variant: sort is written before order_by
merge_requests_build_query_sort_first(l) ==
  LET base == "projects/" \o to_string(l.id) \o "/merge_requests"
      mark == IF l.iid = None /\ l.state = None /\ l.order_by = None
                 /\ l.sort = None
                THEN "" ELSE "?"
      a0 == [query |-> base \o mark, split_char |-> ""]
      a1 == IF l.iid = None THEN a0 ELSE push_key(a0, iid_text(Unwrap(l.iid)))
      a2 == IF l.state = None THEN a1
            ELSE push_key(a1, "state=" \o state_str(Unwrap(l.state)))
      a3 == IF l.sort = None THEN a2
            ELSE push_key(a2, "sort=" \o sort_str(Unwrap(l.sort)))
      a4 == IF l.order_by = None THEN a3
            ELSE push_key(a3, "order_by=" \o mr_order_by_str(Unwrap(l.order_by)))
  IN a4.query

\* MergeRequestsLister::build_query
merge_requests_build_query(l) ==
  LET base == "projects/" \o to_string(l.id) \o "/merge_requests"
      mark == IF l.iid = None /\ l.state = None /\ l.order_by = None
                 /\ l.sort = None
                THEN "" ELSE "?"
      a0 == [query |-> base \o mark, split_char |-> ""]
      a1 == IF l.iid = None THEN a0 ELSE push_key(a0, iid_text(Unwrap(l.iid)))
      a2 == IF l.state = None THEN a1
            ELSE push_key(a1, "state=" \o state_str(Unwrap(l.state)))
      a3 == IF l.order_by = None THEN a2
            ELSE push_key(a2, "order_by=" \o mr_order_by_str(Unwrap(l.order_by)))
      a4 == IF l.sort = None THEN a3
            ELSE push_key(a3, "sort=" \o sort_str(Unwrap(l.sort)))
  IN a4.query

\* the query of the issues lister of a project
issues_build_query(l) == "projects/" \o to_string(l.id) \o "/issues"

\* BuildQuery for projects::Listing
listing_build_query(l) ==
  LET mark == IF l.archived = None /\ l.visibility = None /\ l.order_by = None
                 /\ l.sort = None /\ l.search = "" /\ l.simple = None
                THEN "" ELSE "?"
      a0 == [query |-> "projects" \o mark, split_char |-> ""]
      a1 == IF l.archived = None THEN a0
            ELSE push_key(a0, "archived=" \o bool_str(Unwrap(l.archived)))
      a2 == IF l.visibility = None THEN a1
            ELSE push_key(a1, "visibility=" \o visibility_str(Unwrap(l.visibility)))
      a3 == IF l.order_by = None THEN a2
            ELSE push_key(a2, "order_by=" \o order_by_str(Unwrap(l.order_by)))
      a4 == IF l.sort = None THEN a3
            ELSE push_key(a3, "sort=" \o sort_str(Unwrap(l.sort)))
      a5 == IF l.search = "" THEN a4 ELSE push_key(a4, "search=" \o l.search)
      a6 == IF l.simple = None THEN a5
            ELSE push_key(a5, "simple=" \o bool_str(Unwrap(l.simple)))
  IN a6.query

\* the form encoding serde_urlencoded applies to a value: letters, digits
\* and *-._ stay, a space becomes +, every other byte becomes %XX
url_escape(c) ==
  CASE c = " " -> "+" [] c = "&" -> "%26" [] c = "=" -> "%3D"
    [] c = "?" -> "%3F" [] c = "/" -> "%2F" [] OTHER -> c

RECURSIVE form_urlencode(_)
form_urlencode(str) ==
  IF str = "" THEN ""
  ELSE url_escape(SubSeq(str, 1, 1)) \o form_urlencode(SubSeq(str, 2, Len(str)))

\* one more key=value pair of serde_urlencoded's output
add_pair(enc, text) == IF enc = "" THEN text ELSE enc \o "&" \o text

\* serde_urlencoded::to_string(&self.internal) of owned::ProjectsLister: the
\* fields that are Some, in the order of the struct
serde_urlencoded_to_string(l) ==
  LET e1 == IF l.archived = None THEN ""
            ELSE add_pair("", "archived=" \o bool_str(Unwrap(l.archived)))
      e2 == IF l.visibility = None THEN e1
            ELSE add_pair(e1, "visibility=" \o visibility_str(Unwrap(l.visibility)))
      e3 == IF l.order_by = None THEN e2
            ELSE add_pair(e2, "order_by=" \o order_by_str(Unwrap(l.order_by)))
      e4 == IF l.sort = None THEN e3
            ELSE add_pair(e3, "sort=" \o sort_str(Unwrap(l.sort)))
      e5 == IF l.search_opt = None THEN e4
            ELSE add_pair(e4, "search=" \o form_urlencode(Unwrap(l.search_opt)))
  IN e5

\* faulty variant: the ? is written whether or not a pair follows
owned_build_query_always_marks(l) ==
  "projects/owned" \o "?" \o serde_urlencoded_to_string(l)

\* BuildQuery for owned::ProjectsLister
owned_build_query(l) ==
  LET encoded == serde_urlencoded_to_string(l)
  IN IF encoded = "" THEN "projects/owned" ELSE "projects/owned" \o "?" \o encoded

\* BuildQuery for owned_groups::Listing
owned_groups_build_query(l) == "groups/owned"

\* id::ProjectsLister::new(gl, id)
SingleProjectLister_new(id) ==
  [new_lister("project", 0) EXCEPT !.listing_id = id]

\* faulty variant: only the first occurrence is replaced
RECURSIVE replace_first(_, _, _)
replace_first(str, from, to) ==
  IF str = "" THEN ""
  ELSE IF SubSeq(str, 1, 1) = from THEN to \o SubSeq(str, 2, Len(str))
  ELSE SubSeq(str, 1, 1) \o replace_first(SubSeq(str, 2, Len(str)), from, to)

\* str::replace for a pattern of one character: every occurrence is replaced
RECURSIVE replace(_, _, _)
replace(str, from, to) ==
  IF str = "" THEN ""
  ELSE (IF SubSeq(str, 1, 1) = from THEN to ELSE SubSeq(str, 1, 1))
       \o replace(SubSeq(str, 2, Len(str)), from, to)

\* BuildQuery for id::ProjectsLister
id_build_query(l) ==
  "projects/" \o (IF l.listing_id.tag = "Id" THEN to_string(l.listing_id.n)
                  ELSE replace(l.listing_id.s, "/", "%2F"))

\* BuildQuery::build_query of a lister
build_query(l) ==
  CASE l.kind = "merge_requests" -> merge_requests_build_query(l)
    [] l.kind = "project" -> id_build_query(l)
    [] l.kind = "issues" -> issues_build_query(l)
    [] l.kind = "projects" -> listing_build_query(l)
    [] l.kind = "projects_owned" -> owned_build_query(l)
    [] l.kind = "groups_owned" -> owned_groups_build_query(l)

(***************************************************************************)
(* Lister::list and Lister::list_paginated: the request they make.  The    *)
(* query is what goes to GitLab::get; resource, project_id and search are  *)
(* what the server reads from it.                                          *)
(***************************************************************************)
lister_project_id(l) ==
  IF l.kind \in {"merge_requests", "issues"} THEN Some(l.id) ELSE None

lister_search(l) ==
  IF l.kind = "projects_owned" /\ l.search_opt # None THEN Unwrap(l.search_opt)
  ELSE l.search

list(l) ==
  [resource |-> l.kind, project_id |-> lister_project_id(l),
   search |-> lister_search(l), query |-> build_query(l),
   page |-> None, per_page |-> None]

list_paginated(l, page, per_page) ==
  [resource |-> l.kind, project_id |-> lister_project_id(l),
   search |-> lister_search(l), query |-> build_query(l),
   page |-> Some(page), per_page |-> Some(per_page)]

\* the result of a lister's request: gl.get(...).chain_err("cannot get query")
lister_result(payload, o) == chain_err(get(payload, o), "cannot get query")

(***************************************************************************)
(* get_project.                                                            *)
(***************************************************************************)
\* the request of one turn of get_project's loop:
\* self.projects().search(name.to_string()).list()
\* (pagination_page and pagination_per_page are not passed on: list() is
\* called, not list_paginated(), see the FIXME of the source)
get_project_query(nm, page, per_page) == list(listing_search(Listing_new, nm))

\* projects.into_iter().find(|p| p.namespace.name == namespace && p.name == name)
\* as the position of the first match, 0 when there is none
\* faulty variant: the namespace is not compared
find_project_by_name(ps, ns, nm) ==
  LET hits == {i \in 1..Len(ps) : ps[i].name = nm}
  IN IF hits = {} THEN 0 ELSE CHOOSE i \in hits : \A j \in hits : i <= j

find_project(ps, ns, nm) ==
  LET hits == {i \in 1..Len(ps) : ps[i].namespace = ns /\ ps[i].name = nm}
  IN IF hits = {} THEN 0 ELSE CHOOSE i \in hits : \A j \in hits : i <= j

\* if found_project.is_some() || nb_projects_found < pagination_per_page
\* faulty variant: a full page ends the loop too
get_project_break_on_full(found, nb, per_page) == found \/ nb <= per_page

get_project_break(found, nb, per_page) == found \/ nb < per_page

\* the value get_project returns when its loop has ended on page `ps`
\* faulty variant: without a match the first project of the page is returned
get_project_return_first(ps, ns, nm) ==
  LET k == find_project(ps, ns, nm)
  IN IF k # 0 THEN Ok(<<ps[k]>>)
     ELSE IF ps # <<>> THEN Ok(<<ps[1]>>)
     ELSE Err(<<"Project not found!">>)

get_project_return(ps, ns, nm) ==
  LET k == find_project(ps, ns, nm)
  IN IF k = 0 THEN Err(<<"Project not found!">>) ELSE Ok(<<ps[k]>>)

(***************************************************************************)
(* high_level_get.                                                         *)
(***************************************************************************)
\* the lister f(project.id) of get_issue and of get_merge_request
lister_resource(o) == IF o = "get_issue" THEN "issues" ELSE "merge_requests"

\* |project_id| self.issues().project(project_id)
\* |project_id| self.merge_requests(project_id)
\* (want is the iid high_level_get was called with, which the closures of the
\* source do not use)
\* faulty variant: the iid asked for is set as a filter of the lister
high_level_lister_filters_iid(o, pid, want) ==
  mr_iid(new_lister(lister_resource(o), pid), <<want>>)
\* faulty variant: the lister is made for the iid instead of the project id
high_level_lister_of_iid(o, pid, want) == new_lister(lister_resource(o), want)

high_level_lister(o, pid, want) == new_lister(lister_resource(o), pid)

\* f(project.id).list_paginated(pagination_page, pagination_per_page)
\* faulty variant: the two arguments are passed in the wrong order
high_level_get_query_swapped(l, page, per_page) ==
  list_paginated(l, per_page, page)

high_level_get_query(l, page, per_page) == list_paginated(l, page, per_page)

\* found_items.into_iter().find(|item| item.iid() == iid)
\* faulty variant: the id is compared instead of the iid
find_item_by_id(items, want) ==
  LET hits == {i \in 1..Len(items) : items[i].id = want}
  IN IF hits = {} THEN 0 ELSE CHOOSE i \in hits : \A j \in hits : i <= j

find_item(items, want) ==
  LET hits == {i \in 1..Len(items) : items[i].iid = want}
  IN IF hits = {} THEN 0 ELSE CHOOSE i \in hits : \A j \in hits : i <= j

\* if found.is_some() || nb_found < pagination_per_page as usize
\* faulty variant: a full page ends the loop too
high_level_get_break_on_full(found, nb, per_page) == found \/ nb <= per_page
\* faulty variant: a match does not end the loop
high_level_get_break_ignores_found(found, nb, per_page) == nb < per_page
\* faulty variant: an empty page does not end the loop
high_level_get_break_not_on_empty(found, nb, per_page) ==
  found \/ (nb > 0 /\ nb < per_page)

high_level_get_break(found, nb, per_page) == found \/ nb < per_page

\* the value high_level_get returns when its loop has ended on page `items`
high_level_get_return(items, want) ==
  LET k == find_item(items, want)
  IN IF k = 0 THEN Err(<<"Item not found!">>) ELSE Ok(<<items[k]>>)

(***************************************************************************)
(* Initial states: a server with its data, and a client about to call.     *)
(* Either the project search result is large and the listing short, or     *)
(* the search result is short and the listing large.                       *)
(***************************************************************************)
\* page sizes a server may use when the request names none
ServerDefaults == {20, 100}

InitServer ==
  \E ns \in Namespaces, nm \in Names, want \in Iids :
    \/ \E n \in 0..MaxProjects, m \in 0..MaxProjects, twin \in BOOLEAN,
          k \in 0..1 :
         /\ m <= n
         /\ twin => (m > 0 /\ m < n)
         /\ server_projects = ProjectsData(n, ns, nm, m, twin)
         /\ server_items = ItemsData(k, 100 + m, want, k, FALSE)
    \/ \E n \in 0..MaxItems, m \in 0..MaxItems, twin \in BOOLEAN,
          k \in 1..2, j \in 1..2 :
         /\ m <= n
         /\ twin => (m > 0 /\ m < n)
         /\ j <= k
         /\ server_projects = ProjectsData(k, ns, nm, j, FALSE)
         /\ server_items = ItemsData(n, 100 + j, want, m, twin)

\* the first call: nothing is kept of a call before it
NoPreviousCall ==
  /\ calls = 1
  /\ prev_requests = <<>>
  /\ prev_responses = <<>>
  /\ prev_result = NoResult

\* no lister is in the hands of a caller
NoLister ==
  /\ lister = new_lister("none", 0)
  /\ log = <<>>
  /\ query = ""

\* no constructor was called yet
NoClient ==
  [scheme |-> "", domain |-> "", private_token |-> "", http_proxy |-> None,
   result |-> NoResult]

\* no client is under construction, no second listing, no long listing
NoSide ==
  /\ client = NoClient
  /\ url = ""
  /\ debug = ""
  /\ other = new_lister("none", 0)
  /\ other_query = ""
  /\ listing_size = 0

Init ==
  /\ InitServer
  /\ server_default_per_page \in ServerDefaults
  /\ pc = "idle"
  /\ op = "none"
  /\ namespace = "" /\ name = "" /\ iid = 0
  /\ gp_pagination_page = 0
  /\ hl_pagination_page = 0
  /\ projects = <<>>
  /\ project = <<>>
  /\ found_items = <<>>
  /\ requests = <<>>
  /\ responses = <<>>
  /\ result = NoResult
  /\ NoPreviousCall
  /\ NoLister
  /\ NoSide

(***************************************************************************)
(* Actions.                                                                *)
(***************************************************************************)
\* entry of get_project, directly or as the first statement of
\* high_level_get: the locals of get_project are initialised
Enter(o) ==
  /\ pc = "idle"
  /\ op' = o
  /\ \E ns \in Namespaces, nm \in Names, want \in Iids :
       /\ namespace' = ns
       /\ name' = nm
       /\ iid' = IF o = "get_project" THEN 0 ELSE want
  /\ gp_pagination_page' = 1
  /\ pc' = "gp_request"
  /\ UNCHANGED <<server_projects, server_items, server_default_per_page,
                 hl_pagination_page, projects, project, found_items,
                 requests, responses, result, repeat_vars, builder_vars, side_vars>>

call_get_project == Enter("get_project")
call_get_issue == Enter("get_issue")
call_get_merge_request == Enter("get_merge_request")

\* get_project's loop sends the request of this turn
get_project_request ==
  /\ pc = "gp_request"
  /\ Len(requests) < MaxRequests
  /\ requests' = Append(requests,
        get_project_query(name, gp_pagination_page, gp_pagination_per_page))
  /\ pc' = "gp_wait"
  /\ UNCHANGED <<server_projects, server_items, server_default_per_page, op,
                 namespace, name, iid, gp_pagination_page, hl_pagination_page,
                 projects, project, found_items, responses, result,
                 repeat_vars, builder_vars, side_vars>>

\* what get_project returns is returned to the caller (op = get_project) or
\* taken by high_level_get, which goes on to its own loop or returns the
\* error with its context
get_project_finish(r) ==
  IF op = "get_project"
    THEN /\ result' = r
         /\ pc' = "done"
         /\ UNCHANGED <<project, hl_pagination_page>>
    ELSE IF r.ok
      THEN /\ project' = r.value
           /\ hl_pagination_page' = 1
           /\ pc' = "hl_request"
           /\ UNCHANGED result
      ELSE /\ result' = chain_err(r, "cannot get project")
           /\ pc' = "done"
           /\ UNCHANGED <<project, hl_pagination_page>>

\* the response arrives: error out, or scan the page and break or go on
get_project_response ==
  /\ pc = "gp_wait"
  /\ \E o \in Outcomes :
       LET r == chain_err(lister_result(ServerReply(Last(requests)), o),
                          "cannot get projects")
       IN /\ responses' = Append(responses, o)
          /\ IF ~r.ok
            THEN /\ get_project_finish(r)
                 /\ UNCHANGED <<projects, gp_pagination_page>>
            ELSE /\ projects' = r.value
                 /\ IF get_project_break(find_project(r.value, namespace, name) # 0,
                                         Len(r.value), gp_pagination_per_page)
                      THEN /\ get_project_finish(
                                get_project_return(r.value, namespace, name))
                           /\ UNCHANGED gp_pagination_page
                      ELSE /\ gp_pagination_page' = gp_pagination_page + 1
                           /\ pc' = "gp_request"
                           /\ UNCHANGED <<project, hl_pagination_page, result>>
  /\ UNCHANGED <<server_projects, server_items, server_default_per_page, op,
                 namespace, name, iid, found_items, requests, repeat_vars,
                 builder_vars, side_vars>>

\* high_level_get's loop sends the request of this turn
high_level_get_request ==
  /\ pc = "hl_request"
  /\ Len(requests) < MaxRequests
  /\ requests' = Append(requests,
        high_level_get_query(high_level_lister(op, project[1].id, iid),
                             hl_pagination_page, hl_pagination_per_page))
  /\ pc' = "hl_wait"
  /\ UNCHANGED <<server_projects, server_items, server_default_per_page, op,
                 namespace, name, iid, gp_pagination_page, hl_pagination_page,
                 projects, project, found_items, responses, result,
                 repeat_vars, builder_vars, side_vars>>

\* the response arrives: error out, or scan the page and break or go on
high_level_get_response ==
  /\ pc = "hl_wait"
  /\ \E o \in Outcomes :
       LET r == chain_err(lister_result(ServerReply(Last(requests)), o),
                          "cannot get high level for project")
       IN /\ responses' = Append(responses, o)
          /\ IF ~r.ok
            THEN /\ result' = r
                 /\ pc' = "done"
                 /\ UNCHANGED <<found_items, hl_pagination_page>>
            ELSE /\ found_items' = r.value
                 /\ IF high_level_get_break(find_item(r.value, iid) # 0,
                                            Len(r.value), hl_pagination_per_page)
                      THEN /\ result' = high_level_get_return(r.value, iid)
                           /\ pc' = "done"
                           /\ UNCHANGED hl_pagination_page
                      ELSE /\ hl_pagination_page' = hl_pagination_page + 1
                           /\ pc' = "hl_request"
                           /\ UNCHANGED result
  /\ UNCHANGED <<server_projects, server_items, server_default_per_page, op,
                 namespace, name, iid, gp_pagination_page, projects, project,
                 requests, repeat_vars, builder_vars, side_vars>>

Next ==
  \/ call_get_project
  \/ call_get_issue
  \/ call_get_merge_request
  \/ get_project_request
  \/ get_project_response
  \/ high_level_get_request
  \/ high_level_get_response

Spec == Init /\ [][Next]_vars

(***************************************************************************)
(* Successive calls.  The methods take &self and GitLab has no field that  *)
(* a call writes: a call on the same client with the same arguments starts *)
(* with fresh locals.  What the call before it did is kept for comparison. *)
(***************************************************************************)
\* calls made one after the other on one client
MaxCalls == 2
\* longest listing of the server of the repeated calls
MaxRepeatItems == 22

InitRepeat ==
  /\ \E ns \in Namespaces, nm \in Names, want \in Iids, k \in 1..2,
        j \in 0..2, n \in {0} \cup ((MaxRepeatItems - 1)..MaxRepeatItems),
        m \in 0..MaxRepeatItems :
       /\ j <= k
       /\ m \in {0, 1, n}
       /\ server_projects = ProjectsData(k, ns, nm, j, FALSE)
       /\ server_items = ItemsData(n, 100 + j, want, m, FALSE)
  /\ server_default_per_page \in ServerDefaults
  /\ pc = "idle"
  /\ op = "none"
  /\ namespace = "" /\ name = "" /\ iid = 0
  /\ gp_pagination_page = 0
  /\ hl_pagination_page = 0
  /\ projects = <<>>
  /\ project = <<>>
  /\ found_items = <<>>
  /\ requests = <<>>
  /\ responses = <<>>
  /\ result = NoResult
  /\ NoPreviousCall
  /\ NoLister
  /\ NoSide

\* faulty variant: the project a call resolved is kept, and the next call
\* goes straight to the listing
call_again_cached ==
  /\ pc = "done"
  /\ calls < MaxCalls
  /\ calls' = calls + 1
  /\ prev_requests' = requests
  /\ prev_responses' = responses
  /\ prev_result' = result
  /\ requests' = <<>>
  /\ responses' = <<>>
  /\ result' = NoResult
  /\ gp_pagination_page' = 1
  /\ projects' = <<>>
  /\ found_items' = <<>>
  /\ IF project # <<>>
       THEN /\ pc' = "hl_request"
            /\ hl_pagination_page' = 1
            /\ UNCHANGED project
       ELSE /\ pc' = "gp_request"
            /\ hl_pagination_page' = 0
            /\ project' = <<>>
  /\ UNCHANGED <<server_projects, server_items, server_default_per_page, op,
                 namespace, name, iid, builder_vars, side_vars>>

\* the method that returned is called again with the same arguments: the
\* locals of the call that returned are gone, those of get_project are
\* initialised
call_again ==
  /\ pc = "done"
  /\ calls < MaxCalls
  /\ calls' = calls + 1
  /\ prev_requests' = requests
  /\ prev_responses' = responses
  /\ prev_result' = result
  /\ requests' = <<>>
  /\ responses' = <<>>
  /\ result' = NoResult
  /\ gp_pagination_page' = 1
  /\ hl_pagination_page' = 0
  /\ projects' = <<>>
  /\ project' = <<>>
  /\ found_items' = <<>>
  /\ pc' = "gp_request"
  /\ UNCHANGED <<server_projects, server_items, server_default_per_page, op,
                 namespace, name, iid, builder_vars, side_vars>>

NextRepeat ==
  \/ call_get_project
  \/ call_get_issue
  \/ call_get_merge_request
  \/ get_project_request
  \/ get_project_response
  \/ high_level_get_request
  \/ high_level_get_response
  \/ call_again

SpecRepeat == InitRepeat /\ [][NextRepeat]_vars

(***************************************************************************)
(* A lister in the hands of a caller: it is constructed, then its setters, *)
(* build_query, list and list_paginated are called in any order.  Each     *)
(* call but build_query is logged with the lister as it was before it.     *)
(***************************************************************************)
\* calls made on one lister, build_query apart
MaxListerCalls == 3
ProjectIds == {123, 45}
\* the lists given to MergeRequestsLister::iid
IidLists ==
  {<<>>, <<456>>, <<789>>, <<456, 789>>, <<789, 456>>, <<789, 456, 789>>}
States == {"Merged", "Opened", "Closed", "All"}
MergeRequestsOrderBys == {"CreatedAt", "UpdatedAt"}
ProjectsOrderBys ==
  {"Id", "Name", "Path", "CreatedAt", "UpdatedAt", "LastActivityAt"}
Sorts == {"Asc", "Desc"}
Visibilities == {"Public", "Internal", "Private"}
SearchTexts == {"", "SearchPattern", "my proj"}
\* the pagination a caller asks of list_paginated
CallerPages == {2}
CallerPerPages == {50}

\* the variables of a resolution call that a lister call leaves alone
call_vars == <<server_projects, server_items, server_default_per_page, op,
               namespace, name, iid, gp_pagination_page, hl_pagination_page,
               projects, project, found_items, responses, result>>

\* the identifiers a single project is asked by
ListingIds ==
  {ListingId_Id(123), ListingId_NamespaceProject("group/project"),
   ListingId_NamespaceProject("a/b/c"), ListingId_NamespaceProject("solo")}

InitBuilder ==
  /\ lister \in {MergeRequestsLister_new(id) : id \in ProjectIds}
                  \cup {Listing_new, OwnedLister_new, OwnedGroups_new}
                  \cup {SingleProjectLister_new(id) : id \in ListingIds}
  /\ log = <<>>
  /\ query = ""
  /\ pc = "builder"
  /\ server_projects = <<>>
  /\ server_items = <<>>
  /\ server_default_per_page = 20
  /\ op = "none"
  /\ namespace = "" /\ name = "" /\ iid = 0
  /\ gp_pagination_page = 0
  /\ hl_pagination_page = 0
  /\ projects = <<>>
  /\ project = <<>>
  /\ found_items = <<>>
  /\ requests = <<>>
  /\ responses = <<>>
  /\ result = NoResult
  /\ NoPreviousCall
  /\ NoSide

\* a logged call on a lister of the given type: it leaves the lister as
\* `after`, and what build_query returned before it is outdated
Call(kind, opname, arg, after) ==
  /\ pc = "builder"
  /\ lister.kind = kind
  /\ Len(log) < MaxListerCalls
  /\ log' = Append(log, [op |-> opname, arg |-> arg, before |-> lister])
  /\ lister' = after
  /\ query' = ""
  /\ UNCHANGED <<call_vars, repeat_vars, side_vars, pc>>

\* a setter: &mut self, no request
Setter(kind, opname, arg, after) ==
  /\ Call(kind, opname, arg, after)
  /\ UNCHANGED requests

\* build_query(&self): the string is returned, the lister stays
BuildQuery(kind) ==
  /\ pc = "builder"
  /\ lister.kind = kind
  /\ query = ""
  /\ query' = build_query(lister)
  /\ UNCHANGED <<call_vars, repeat_vars, side_vars, pc, requests, lister, log>>

MergeRequestsLister_iid ==
  \E v \in IidLists : Setter("merge_requests", "iid", v, mr_iid(lister, v))
MergeRequestsLister_state ==
  \E v \in States : Setter("merge_requests", "state", v, mr_state(lister, v))
MergeRequestsLister_order_by ==
  \E v \in MergeRequestsOrderBys :
    Setter("merge_requests", "order_by", v, mr_order_by(lister, v))
MergeRequestsLister_sort ==
  \E v \in Sorts : Setter("merge_requests", "sort", v, mr_sort(lister, v))
MergeRequestsLister_build_query == BuildQuery("merge_requests")
\* list(&self) and list_paginated(&self, page, per_page): one request
MergeRequestsLister_list ==
  /\ Call("merge_requests", "list", <<>>, lister)
  /\ requests' = Append(requests, list(lister))
MergeRequestsLister_list_paginated ==
  \E page \in CallerPages, per_page \in CallerPerPages :
    /\ Call("merge_requests", "list_paginated", <<page, per_page>>, lister)
    /\ requests' = Append(requests, list_paginated(lister, page, per_page))

Listing_archived ==
  \E v \in BOOLEAN : Setter("projects", "archived", v, listing_archived(lister, v))
Listing_visibility ==
  \E v \in Visibilities :
    Setter("projects", "visibility", v, listing_visibility(lister, v))
Listing_order_by ==
  \E v \in ProjectsOrderBys :
    Setter("projects", "order_by", v, listing_order_by(lister, v))
Listing_sort ==
  \E v \in Sorts : Setter("projects", "sort", v, listing_sort(lister, v))
Listing_search ==
  \E v \in SearchTexts : Setter("projects", "search", v, listing_search(lister, v))
Listing_simple ==
  \E v \in BOOLEAN : Setter("projects", "simple", v, listing_simple(lister, v))
Listing_build_query == BuildQuery("projects")

ProjectsLister_archived ==
  \E v \in BOOLEAN :
    Setter("projects_owned", "archived", v, owned_archived(lister, v))
ProjectsLister_visibility ==
  \E v \in Visibilities :
    Setter("projects_owned", "visibility", v, owned_visibility(lister, v))
ProjectsLister_order_by ==
  \E v \in ProjectsOrderBys :
    Setter("projects_owned", "order_by", v, owned_order_by(lister, v))
ProjectsLister_sort ==
  \E v \in Sorts : Setter("projects_owned", "sort", v, owned_sort(lister, v))
ProjectsLister_search ==
  \E v \in SearchTexts :
    Setter("projects_owned", "search", v, owned_search(lister, v))
ProjectsLister_build_query == BuildQuery("projects_owned")
ProjectsLister_list ==
  /\ Call("projects_owned", "list", <<>>, lister)
  /\ requests' = Append(requests, list(lister))

OwnedGroups_build_query == BuildQuery("groups_owned")

SingleProjectLister_build_query == BuildQuery("project")
SingleProjectLister_list ==
  /\ Call("project", "list", <<>>, lister)
  /\ requests' = Append(requests, list(lister))

NextBuilder ==
  \/ MergeRequestsLister_iid
  \/ MergeRequestsLister_state
  \/ MergeRequestsLister_order_by
  \/ MergeRequestsLister_sort
  \/ MergeRequestsLister_build_query
  \/ MergeRequestsLister_list
  \/ MergeRequestsLister_list_paginated
  \/ Listing_archived
  \/ Listing_visibility
  \/ Listing_order_by
  \/ Listing_sort
  \/ Listing_search
  \/ Listing_simple
  \/ Listing_build_query
  \/ ProjectsLister_archived
  \/ ProjectsLister_visibility
  \/ ProjectsLister_order_by
  \/ ProjectsLister_sort
  \/ ProjectsLister_search
  \/ ProjectsLister_build_query
  \/ ProjectsLister_list
  \/ OwnedGroups_build_query
  \/ SingleProjectLister_build_query
  \/ SingleProjectLister_list

SpecBuilder == InitBuilder /\ [][NextBuilder]_vars

(***************************************************************************)
(* Vocabulary of the properties.                                           *)
(***************************************************************************)
HighLevelOps == {"get_issue", "get_merge_request"}

\* the requests of the project search, and those of the listing
ProjectRequests == SelectSeq(requests, LAMBDA r : r.resource = "projects")
ListingRequests == SelectSeq(requests, LAMBDA r : r.resource # "projects")

\* a project with the requested namespace and name; an item with the iid
IsWantedProject(p) == p.namespace = namespace /\ p.name = name
IsWantedItem(it) == it.iid = iid
HasWantedProject(ps) == \E i \in 1..Len(ps) : IsWantedProject(ps[i])
HasWantedItem(items) == \E i \in 1..Len(items) : IsWantedItem(items[i])

\* the complete listing of the project high_level_get resolved
ResolvedListing ==
  IF project = <<>> THEN <<>>
  ELSE SelectSeq(server_items, LAMBDA it : it.project_id = project[1].id)

\* a request failed: it was not sent, its body was not read, its status is
\* not a success status, or its body does not decode
Failed(o) ==
  ~o.send_ok \/ ~o.read_ok \/ o.status < 200 \/ o.status > 299 \/ ~o.decodes
Succeeded(o) == o.send_ok /\ o.read_ok /\ o.status = 200 /\ o.decodes
\* every response so far came with status 200 and a body that decodes
AllSucceeded == \A k \in 1..Len(responses) : Succeeded(responses[k])
SomeFailed == \E k \in 1..Len(responses) : Failed(responses[k])

\* the call returned one of the two not-found errors
ProjectNotFound == ~result.ok /\ Last(result.err) = "Project not found!"
ItemNotFound == ~result.ok /\ Last(result.err) = "Item not found!"

(***************************************************************************)
(* C1.  The k-th request of get_project asks for page k of the name        *)
(* search with a page size of 20.                                          *)
(***************************************************************************)
C1_KthRequestAsksPageK ==
  \A k \in 1..Len(ProjectRequests) :
    /\ ProjectRequests[k].page = Some(k)
    /\ ProjectRequests[k].per_page = Some(20)

(***************************************************************************)
(* C2.  get_project ends with not-found when no search result is the       *)
(* wanted project: with 20, 20 and 3 results on pages 1, 2 and 3 it issues *)
(* exactly 3 requests and then returns the not-found error.                *)
(***************************************************************************)
C2_ThreeRequestsThenNotFound ==
  (/\ op = "get_project"
   /\ Len(server_projects) = 43
   /\ ~HasWantedProject(server_projects))
  => /\ Len(requests) <= 3
     /\ (pc = "done" /\ AllSucceeded) => (Len(requests) = 3 /\ ProjectNotFound)

(***************************************************************************)
(* C3.  Once the project is resolved, a listing of N items none of which   *)
(* has the requested iid causes exactly N div 20 + 1 listing requests and  *)
(* then the not-found error (3 requests for 20, 20 and 3 items).           *)
(***************************************************************************)
C3_ListingNotFoundAfterAllPages ==
  (/\ op \in HighLevelOps
   /\ project # <<>>
   /\ ~HasWantedItem(ResolvedListing))
  => LET n == Len(ResolvedListing)
     IN /\ Len(ListingRequests) <= n \div 20 + 1
        /\ ~result.ok
        /\ ItemNotFound => (pc = "done" /\ Len(ListingRequests) = n \div 20 + 1)
        /\ (pc = "done" /\ AllSucceeded) => ItemNotFound

C3_Witness ==
  /\ op \in HighLevelOps
  /\ pc = "done"
  /\ ItemNotFound
  /\ Len(ResolvedListing) = 43
  /\ Len(ListingRequests) = 3
  /\ Len(found_items) = 3

(***************************************************************************)
(* C4.  Short-circuit: a match on the first page means exactly one request *)
(* of that phase, and no request of the phase is issued after a page that  *)
(* contains a match has been scanned, full or not.                         *)
(***************************************************************************)
C4_NoRequestAfterMatch ==
  /\ [](LET f == Len(ProjectRequests) + 1
        IN /\ (/\ Len(responses) >= 1
               /\ Succeeded(responses[1])
               /\ HasWantedProject(ServerReply(requests[1])))
              => Len(ProjectRequests) = 1
           /\ (/\ Len(responses) >= f
               /\ Succeeded(responses[f])
               /\ HasWantedItem(ServerReply(requests[f])))
              => Len(ListingRequests) = 1)
  /\ [][/\ HasWantedProject(projects) => ProjectRequests' = ProjectRequests
        /\ HasWantedItem(found_items) => requests' = requests]_vars

C4_Witness ==
  /\ op = "get_issue"
  /\ pc = "done"
  /\ result.ok
  /\ HasWantedProject(projects)
  /\ Len(found_items) = 20
  /\ Len(ProjectRequests) = 1
  /\ Len(ListingRequests) = 1

(***************************************************************************)
(* C5.  The project get_project returns comes from the page it fetched,    *)
(* has exactly the requested namespace and the requested name, and is the  *)
(* first such project of that page.                                        *)
(***************************************************************************)
ReturnedProject ==
  IF op = "get_project"
    THEN IF pc = "done" /\ result.ok THEN result.value ELSE <<>>
    ELSE project

C5_ExactFirstMatch ==
  ReturnedProject # <<>> =>
    /\ \E r \in 1..Len(requests) : projects = ServerReply(requests[r])
    /\ \E k \in 1..Len(projects) :
         /\ ReturnedProject = <<projects[k]>>
         /\ projects[k].namespace = namespace
         /\ projects[k].name = name
         /\ \A j \in 1..(k - 1) : ~IsWantedProject(projects[j])

C5_Witness ==
  /\ op = "get_project"
  /\ pc = "done"
  /\ result.ok
  /\ \E k \in 1..Len(projects) :
       /\ result.value = <<projects[k]>>
       /\ k < Len(projects) /\ IsWantedProject(projects[k + 1])
       /\ \E j \in 1..(k - 1) :
            projects[j].name = name /\ projects[j].namespace # namespace
       /\ \E j \in 1..(k - 1) :
            projects[j].name # name /\ projects[j].namespace = namespace

(***************************************************************************)
(* C6.  The item get_issue / get_merge_request returns is in the fetched   *)
(* page of the resolved project's listing, has the requested iid, is the   *)
(* first such item of the listing, and the scan stops at its page.         *)
(***************************************************************************)
C6_FirstItemWithIid ==
  (op \in HighLevelOps /\ pc = "done" /\ result.ok) =>
    /\ HasWantedItem(ResolvedListing)
    /\ LET L == ResolvedListing
           first == CHOOSE i \in 1..Len(L) :
                      IsWantedItem(L[i]) /\ \A j \in 1..(i - 1) : ~IsWantedItem(L[j])
       IN /\ result.value = <<L[first]>>
          /\ result.value[1].iid = iid
          /\ \E k \in 1..Len(found_items) : found_items[k] = result.value[1]
          /\ found_items = ServerReply(Last(requests))
          /\ Len(ListingRequests) = (first - 1) \div 20 + 1

C6_Witness ==
  /\ op = "get_merge_request"
  /\ pc = "done"
  /\ result.ok
  /\ Len(ListingRequests) = 2
  /\ \E k \in 1..Len(found_items) :
       /\ result.value = <<found_items[k]>>
       /\ k < Len(found_items) /\ IsWantedItem(found_items[k + 1])

(***************************************************************************)
(* C7.  When the parent project is not resolved (not found, or a fetch     *)
(* failed), get_issue / get_merge_request returns an error and issues no   *)
(* listing request.                                                        *)
(***************************************************************************)
ProjectFetchFailed ==
  \E k \in 1..Len(responses) :
    k <= Len(ProjectRequests) /\ ~Succeeded(responses[k])

C7_NoListingWithoutProject ==
  op \in HighLevelOps =>
    /\ ListingRequests # <<>> => (HasWantedProject(projects) /\ ~ProjectFetchFailed)
    /\ (pc = "done" /\ (ProjectFetchFailed \/ ~HasWantedProject(projects)))
         => (~result.ok /\ ListingRequests = <<>>)

C7_Witness ==
  /\ op \in HighLevelOps
  /\ pc = "done"
  /\ result = Err(<<"cannot get project", "Project not found!">>)
  /\ Len(projects) = 19
  /\ requests = ProjectRequests

(***************************************************************************)
(* C8.  In both loops a page of exactly 20 results without a match sends   *)
(* the loop on to a further request; not-found is returned only on a page  *)
(* with fewer than 20 results, also when the full page was the last one.   *)
(***************************************************************************)
C8_FullPageGoesOn ==
  /\ [](ProjectNotFound => Len(projects) < 20)
  /\ [](ItemNotFound => Len(found_items) < 20)
  /\ [][(/\ pc = "gp_wait"
         /\ Len(responses') = Len(responses) + 1
         /\ Succeeded(Last(responses'))
         /\ Len(projects') = 20
         /\ ~HasWantedProject(projects'))
        => (pc' = "gp_request" /\ result' = result)]_vars
  /\ [][(/\ pc = "hl_wait"
         /\ Len(responses') = Len(responses) + 1
         /\ Succeeded(Last(responses'))
         /\ Len(found_items') = 20
         /\ ~HasWantedItem(found_items'))
        => (pc' = "hl_request" /\ result' = result)]_vars

C8_Witness ==
  /\ op \in HighLevelOps
  /\ pc = "done"
  /\ ItemNotFound
  /\ Len(ResolvedListing) = 40
  /\ Len(ListingRequests) = 3
  /\ found_items = <<>>

(***************************************************************************)
(* C9.  An empty first page makes the phase end with its not-found error   *)
(* after exactly one request of the phase.                                 *)
(***************************************************************************)
C9_EmptyFirstPage ==
  LET f == Len(ProjectRequests) + 1
  IN /\ (/\ Len(responses) >= 1
         /\ Succeeded(responses[1])
         /\ ServerReply(requests[1]) = <<>>)
        => (pc = "done" /\ ProjectNotFound /\ Len(requests) = 1)
     /\ (/\ project # <<>>
         /\ Len(responses) >= f
         /\ Succeeded(responses[f])
         /\ ServerReply(requests[f]) = <<>>)
        => (pc = "done" /\ ItemNotFound /\ Len(ListingRequests) = 1)

C9_Witness ==
  /\ op = "get_issue"
  /\ pc = "done"
  /\ ItemNotFound
  /\ ResolvedListing = <<>>
  /\ Len(ListingRequests) = 1
  /\ Succeeded(Last(responses))

(***************************************************************************)
(* C10.  A failed page fetch ends the resolution with an error at once:    *)
(* no request follows it, and the error is neither a match nor one of the  *)
(* not-found errors.                                                       *)
(***************************************************************************)
C10_FailedFetchAborts ==
  /\ [](SomeFailed =>
          /\ pc = "done"
          /\ ~result.ok
          /\ ~ProjectNotFound
          /\ ~ItemNotFound
          /\ Len(requests) = Len(responses)
          /\ \A k \in 1..Len(responses) : Failed(responses[k]) => k = Len(responses))
  /\ [][SomeFailed => requests' = requests]_vars

C10_Witness ==
  /\ op \in HighLevelOps
  /\ pc = "done"
  /\ Len(ListingRequests) = 2
  /\ Len(responses) = Len(requests)
  /\ ~Last(responses).decodes
  /\ Last(responses).status = 200
  /\ ~result.ok

(***************************************************************************)
(* C11.  The listing requests of high_level_get carry the page numbers     *)
(* 1, 2, 3, ... and per_page 20, and a request is issued only when the     *)
(* response to the one before it has been received and scanned.            *)
(***************************************************************************)
C11_SequentialPages ==
  /\ [](\A k \in 1..Len(ListingRequests) :
          /\ ListingRequests[k].page = Some(k)
          /\ ListingRequests[k].per_page = Some(20))
  /\ [](Len(responses) <= Len(requests) /\ Len(requests) <= Len(responses) + 1)
  /\ [][(requests' # requests /\ ListingRequests # <<>>)
        => /\ Len(responses) = Len(requests)
           /\ Succeeded(Last(responses))
           /\ found_items = ServerReply(Last(requests))
           /\ Len(found_items) = 20
           /\ ~HasWantedItem(found_items)]_vars

C11_Witness ==
  /\ op = "get_merge_request"
  /\ pc = "hl_wait"
  /\ Len(ListingRequests) = 3
  /\ Len(responses) = Len(requests) - 1

(***************************************************************************)
(* C12.  Every listing request of get_issue / get_merge_request is made    *)
(* for the internal id of the project get_project returned, and carries no *)
(* iid filter: its query is the bare listing path of that project.         *)
(***************************************************************************)
C12_ListingByProjectId ==
  \A k \in 1..Len(ListingRequests) :
    LET r == ListingRequests[k]
    IN /\ project # <<>>
       /\ HasWantedProject(<<project[1]>>)
       /\ r.project_id = Some(project[1].id)
       /\ r.resource = (IF op = "get_issue" THEN "issues" ELSE "merge_requests")
       /\ r.query = "projects/" \o to_string(project[1].id) \o "/" \o r.resource
       /\ ~Contains(r.query, "iid")
       /\ ~Contains(r.query, "?")

C12_Witness ==
  /\ op = "get_merge_request"
  /\ Len(ListingRequests) = 2
  /\ Last(requests).query = "projects/102/merge_requests"
  /\ project[1].id = 102
  /\ project[1].id # iid

(***************************************************************************)
(* C13.  Resolution calls keep no state between them: a call with the same *)
(* arguments as the call before it, on unchanged server data, starts with  *)
(* the same first request; as long as it gets the same responses it sends  *)
(* the same requests, and with the same responses throughout it sends      *)
(* exactly the requests of the call before it and returns what that call   *)
(* returned: a successful resolution lets no later call skip a request.    *)
(***************************************************************************)
C13_CallsAreIndependent ==
  calls > 1 =>
    /\ (requests # <<>>) =>
         /\ prev_requests # <<>>
         /\ requests[1] = prev_requests[1]
         /\ requests[1].resource = "projects"
    /\ \A k \in 1..Min(Len(requests), Len(prev_requests)) :
         (\A i \in 1..(k - 1) : responses[i] = prev_responses[i])
           => requests[k] = prev_requests[k]
    /\ (pc = "done" /\ responses = prev_responses) =>
         /\ requests = prev_requests
         /\ result = prev_result

\* the second call of get_merge_request after a successful one: it sent
\* again the project search and both pages of the listing
C13_Witness ==
  /\ calls = 2
  /\ pc = "done"
  /\ op = "get_merge_request"
  /\ prev_result.ok
  /\ result.ok
  /\ Len(prev_requests) = 3
  /\ requests = prev_requests
  /\ Last(requests).page = Some(2)

(***************************************************************************)
(* The client.  More strings first: what validate_url, url::Url::parse and *)
(* the reading of HTTP_PROXY do with their text.                           *)
(***************************************************************************)
\* pub const API_VERSION: u16 = 3
API_VERSION == 3

\* the first position of str with a character of chars, 0 if there is none
IndexOfAny(str, chars) ==
  LET at == {i \in 1..Len(str) : SubSeq(str, i, i) \in chars}
  IN IF at = {} THEN 0 ELSE CHOOSE i \in at : \A j \in at : i <= j

\* the last position of str with the character ch, 0 if there is none
LastIndexOf(str, ch) ==
  LET at == {i \in 1..Len(str) : SubSeq(str, i, i) = ch}
  IN IF at = {} THEN 0 ELSE CHOOSE i \in at : \A j \in at : j <= i

\* str::find(ch): the index, from 0, of the first occurrence
find(str, ch) ==
  IF IndexOfAny(str, {ch}) = 0 THEN None ELSE Some(IndexOfAny(str, {ch}) - 1)

\* str::ends_with(ch)
ends_with(str, ch) == Len(str) > 0 /\ SubSeq(str, Len(str), Len(str)) = ch

\* the lower case of one character, and of a string
lower_char(c) ==
  LET upper == "ABCDEFGHIJKLMNOPQRSTUVWXYZ"
      at == IndexOfAny(upper, {c})
  IN IF at = 0 THEN c ELSE SubSeq("abcdefghijklmnopqrstuvwxyz", at, at)

RECURSIVE to_lowercase(_)
to_lowercase(str) ==
  IF str = "" THEN ""
  ELSE lower_char(SubSeq(str, 1, 1)) \o to_lowercase(SubSeq(str, 2, Len(str)))

\* every character is a decimal digit
is_digits(str) ==
  \A i \in 1..Len(str) : IndexOfAny("0123456789", {SubSeq(str, i, i)}) > 0

\* the number written by a string of digits
RECURSIVE digits_value(_)
digits_value(str) ==
  IF str = "" THEN 0
  ELSE 10 * digits_value(SubSeq(str, 1, Len(str) - 1))
       + IndexOfAny("0123456789", {SubSeq(str, Len(str), Len(str))}) - 1

\* str::parse::<u16>()
parse_u16(str) ==
  IF str = "" \/ ~is_digits(str) \/ Len(str) > 5 THEN Err(<<"invalid digit">>)
  ELSE IF digits_value(str) > 65535 THEN Err(<<"number too large">>)
  ELSE Ok(digits_value(str))

\* the slashes and backslashes at the start of a string are dropped
RECURSIVE skip_slashes(_)
skip_slashes(str) ==
  IF str # "" /\ SubSeq(str, 1, 1) \in {"/", "\\"}
    THEN skip_slashes(SubSeq(str, 2, Len(str)))
    ELSE str

\* the default port of a scheme
default_port(scheme) ==
  CASE scheme = "https" -> Some(443) [] scheme = "http" -> Some(80)
    [] OTHER -> None

\* url::Url::parse of scheme://... for the schemes http and https: any
\* number of slashes after the colon, then the authority up to the first
\* / \ ? or #, in it the userinfo up to the last @ and the port after the
\* colon; the host is lower-cased and must not be empty
Url_parse(url_string) ==
  LET colon == IndexOfAny(url_string, {":"})
      scheme == SubSeq(url_string, 1, colon - 1)
      rest == skip_slashes(SubSeq(url_string, colon + 1, Len(url_string)))
      stop == IndexOfAny(rest, {"/", "\\", "?", "#"})
      authority == IF stop = 0 THEN rest ELSE SubSeq(rest, 1, stop - 1)
      path == IF stop = 0 THEN "/" ELSE SubSeq(rest, stop, Len(rest))
      hostport == SubSeq(authority, LastIndexOf(authority, "@") + 1,
                         Len(authority))
      portcolon == IndexOfAny(hostport, {":"})
      host == to_lowercase(IF portcolon = 0 THEN hostport
                           ELSE SubSeq(hostport, 1, portcolon - 1))
      port_text == IF portcolon = 0 THEN ""
                   ELSE SubSeq(hostport, portcolon + 1, Len(hostport))
  IN IF port_text # "" /\ ~parse_u16(port_text).ok
       THEN Err(<<"invalid port number">>)
     ELSE IF host = "" THEN Err(<<"empty host">>)
     ELSE IF IndexOfAny(host, {" ", "%", "<", ">", "[", "]", "^", "|"}) > 0
       THEN Err(<<"invalid domain character">>)
     ELSE Ok([scheme |-> scheme, host |-> Some(host),
              port |-> IF port_text = "" \/ Some(parse_u16(port_text).value)
                                             = default_port(scheme)
                         THEN None ELSE Some(parse_u16(port_text).value),
              path |-> path])

\* Url::set_port(Some(port)): the default port of the scheme is not kept
set_port(u, port) ==
  [u EXCEPT !.port = IF Some(port) = default_port(u.scheme) THEN None
                     ELSE Some(port)]

\* faulty variant: the host of the parsed URL is not compared with the domain
validate_url_any_host(scheme, domain, port) ==
  IF find(domain, ".") = Some(0)
    THEN Err(<<"invalid domain: cannot start with a dot">>)
  ELSE IF ends_with(domain, ".")
    THEN Err(<<"invalid domain: cannot end with a dot">>)
  ELSE
    LET url_string == scheme \o "://" \o domain \o "/api/v"
                        \o to_string(API_VERSION) \o "/"
        parsed == chain_err(Url_parse(url_string), "failure to parse URL")
    IN IF ~parsed.ok THEN parsed ELSE Ok(set_port(parsed.value, port))

\* validate_url
validate_url(scheme, domain, port) ==
  IF find(domain, ".") = Some(0)
    THEN Err(<<"invalid domain: cannot start with a dot">>)
  ELSE IF ends_with(domain, ".")
    THEN Err(<<"invalid domain: cannot end with a dot">>)
  ELSE
    LET url_string == scheme \o "://" \o domain \o "/api/v"
                        \o to_string(API_VERSION) \o "/"
        parsed == chain_err(Url_parse(url_string), "failure to parse URL")
    IN IF ~parsed.ok THEN parsed
       ELSE IF set_port(parsed.value, port).host = None
         THEN Err(<<"failure to get URL's hostname">>)
       ELSE IF Unwrap(set_port(parsed.value, port).host) # domain
         THEN Err(<<"invalid hostname">>)
       ELSE Ok(set_port(parsed.value, port))

\* str::trim_left_matches(prefix): the prefix is dropped as often as it
\* stands at the start
RECURSIVE trim_left_matches(_, _)
trim_left_matches(str, prefix) ==
  IF Len(str) >= Len(prefix) /\ SubSeq(str, 1, Len(prefix)) = prefix
    THEN trim_left_matches(SubSeq(str, Len(prefix) + 1, Len(str)), prefix)
    ELSE str

\* str::split(ch).collect(): the pieces between the occurrences of ch
RECURSIVE split(_, _)
split(str, ch) ==
  LET at == IndexOfAny(str, {ch})
  IN IF at = 0 THEN <<str>>
     ELSE <<SubSeq(str, 1, at - 1)>> \o split(SubSeq(str, at + 1, Len(str)), ch)

\* a panic of the thread: no value is returned
Panic(msg) == [ok |-> FALSE, value |-> <<>>, err |-> <<"panicked", msg>>]
Panicked(r) == ~r.ok /\ r.err[1] = "panicked"

\* the hyper client of GitLab::_new: env::var("HTTP_PROXY") is None when the
\* variable is not set
hyper_client(http_proxy) ==
  IF http_proxy = None THEN Ok("direct")
  ELSE
    LET proxy == split(trim_left_matches(Unwrap(http_proxy), "http://"), ":")
    IN IF Len(proxy) < 2 THEN Panic("index out of bounds")
       ELSE IF ~parse_u16(proxy[2]).ok
         THEN chain_err(parse_u16(proxy[2]), "failure to set port")
       ELSE Ok("proxy")

\* GitLab::_new
_new(scheme, domain, port, private_token, http_proxy) ==
  IF Len(private_token) # 20
    THEN Err(<<"private token should be a 20 characters string">>)
  ELSE
    LET u == chain_err(validate_url(scheme, domain, port), "invalid URL")
        c == hyper_client(http_proxy)
    IN IF ~u.ok THEN u
       ELSE IF ~c.ok THEN c
       ELSE Ok([url |-> u.value, private_token |-> private_token,
                client |-> c.value])

\* GitLab::new_insecure and GitLab::new
new_insecure(domain, private_token, http_proxy) ==
  _new("http", domain, 80, private_token, http_proxy)
new(domain, private_token, http_proxy) ==
  _new("https", domain, 443, private_token, http_proxy)

\* GitLab::port(port): Url::set_port on the URL of the client
port(gl, p) == [gl EXCEPT !.url = set_port(gl.url, p)]

\* GitLab::scheme(scheme): Url::set_scheme, from one of http and https to the
\* other; the port is kept as it is
scheme(gl, sch) == [gl EXCEPT !.url.scheme = sch]

\* Url::as_str: the text of the URL of a client
url_text(u) ==
  u.scheme \o "://" \o Unwrap(u.host)
    \o (IF u.port = None THEN "" ELSE ":" \o to_string(Unwrap(u.port)))
    \o u.path

\* what the URL parser writes for one character of a relative reference
url_encode_char(c) ==
  CASE c = " " -> "%20" [] c = "<" -> "%3C" [] c = ">" -> "%3E" [] OTHER -> c

RECURSIVE url_encode(_)
url_encode(str) ==
  IF str = "" THEN ""
  ELSE url_encode_char(SubSeq(str, 1, 1)) \o url_encode(SubSeq(str, 2, Len(str)))

\* Url::join(query) for a query that is a relative path with or without a
\* query part: it is resolved against the base, whose path ends with /
Url_join(u, q) == url_text(u) \o url_encode(q)

\* query_pairs_mut().append_pair(key, value): a ? is added if the URL has no
\* query part, an & if its query part is not empty
append_pair(new_url, key, value) ==
  LET mark == IndexOfAny(new_url, {"?"})
      started == IF mark = 0 THEN new_url \o "?" ELSE new_url
  IN started \o (IF mark # 0 /\ mark < Len(new_url) THEN "&" ELSE "")
             \o form_urlencode(key) \o "=" \o form_urlencode(value)

\* GitLab::build_url
build_url(gl, q) ==
  append_pair(Url_join(gl.url, q), "private_token", gl.private_token)

\* faulty variant: the pagination is written before the token
get_url_pages_first(gl, q, page, per_page) ==
  LET joined == Url_join(gl.url, q)
      paged == joined
                 \o (IF page = None THEN ""
                     ELSE (IF IndexOfAny(joined, {"?"}) = 0 THEN "?" ELSE "&")
                          \o "page=" \o to_string(Unwrap(page)))
                 \o (IF per_page = None THEN ""
                     ELSE "&per_page=" \o to_string(Unwrap(per_page)))
  IN append_pair(paged, "private_token", gl.private_token)

\* GitLab::get, up to the request: the URL it is sent to
get_url(gl, q, page, per_page) ==
  build_url(gl, q)
    \o (IF page = None THEN "" ELSE "&page=" \o to_string(Unwrap(page)))
    \o (IF per_page = None THEN ""
        ELSE "&per_page=" \o to_string(Unwrap(per_page)))

\* faulty variant: the token is written as it is
fmt_debug_shows_token(gl) ==
  "GitLab { scheme: " \o gl.url.scheme
    \o ", domain: " \o (IF gl.url.host = None THEN "bad hostname provided"
                        ELSE Unwrap(gl.url.host))
    \o ", port: " \o (IF gl.url.port = None THEN "no port provided"
                      ELSE to_string(Unwrap(gl.url.port)))
    \o ", private_token: " \o gl.private_token \o " }"

\* impl fmt::Debug for GitLab
fmt_debug(gl) ==
  "GitLab { scheme: " \o gl.url.scheme
    \o ", domain: " \o (IF gl.url.host = None THEN "bad hostname provided"
                        ELSE Unwrap(gl.url.host))
    \o ", port: " \o (IF gl.url.port = None THEN "no port provided"
                      ELSE to_string(Unwrap(gl.url.port)))
    \o ", private_token: XXXXXXXXXXXXXXXXXXXX }"

\* Debug of a Vec<i64>: [a, b, c]
RECURSIVE vec_debug_from(_, _)
vec_debug_from(v, k) ==
  IF k > Len(v) THEN ""
  ELSE (IF k = 1 THEN "" ELSE ", ") \o to_string(v[k]) \o vec_debug_from(v, k + 1)
vec_debug(v) == "[" \o vec_debug_from(v, 1) \o "]"

\* Debug of an Option whose value is written as text
option_debug(o, text) == IF o = None THEN "None" ELSE "Some(" \o text \o ")"

\* #[derive(Debug)] of MergeRequestsLister: its fields gl, id and internal
merge_requests_lister_debug(gl, l) ==
  "MergeRequestsLister { gl: " \o fmt_debug(gl)
    \o ", id: " \o to_string(l.id)
    \o ", internal: MergeRequestsListerInternal { iid: "
    \o option_debug(l.iid, IF l.iid = None THEN "" ELSE vec_debug(Unwrap(l.iid)))
    \o ", state: "
    \o option_debug(l.state, IF l.state = None THEN "" ELSE Unwrap(l.state))
    \o ", order_by: "
    \o option_debug(l.order_by,
                    IF l.order_by = None THEN "" ELSE Unwrap(l.order_by))
    \o ", sort: "
    \o option_debug(l.sort, IF l.sort = None THEN "" ELSE Unwrap(l.sort))
    \o " } }"

(***************************************************************************)
(* A client is constructed; when that succeeded, listers that hold it send *)
(* requests and the client and the listers are rendered with {:?}.        *)
(***************************************************************************)
Domains ==
  {"gitlab.com", "localhost", "gitlab.example.com", "", "gitla/b.com",
   "/gitlab.com", "http:/gitlab.com", "http:///gitlab.com", ".gitlab",
   ".gitlab.com", "gitlab.", "gitlab.com.", "GitLab.com", "gitlab.com:8080",
   "user@gitlab.com", "."}
Tokens ==
  {"", "X", "XXXXXXXXXXXXXXXXXXX", "XXXXXXXXXXXXXXXXXXXX",
   "XXXXXXXXXXXXXXXXXXXXX", "abcdefghij0123456789", "ABCDEFGHIJ-_23456789"}
\* HTTP_PROXY: not set, a proxy with its port, the same with a / at the end,
\* a port that is no number, and no port at all
HttpProxies ==
  {None, Some("http://proxy:3128"), Some("http://proxy:3128/"),
   Some("proxy:abc"), Some("http://proxy")}

\* the ports and the schemes the setters of the client are given
Ports == {80, 81, 443}
Schemes == {"http", "https"}

\* the merge request listers that are given a client
MergeRequestsSamples ==
  {MergeRequestsLister_new(123),
   mr_sort(mr_iid(MergeRequestsLister_new(123), <<456, 789>>), "Asc"),
   mr_state(MergeRequestsLister_new(45), "Merged"),
   mr_iid(MergeRequestsLister_new(45), <<>>)}
\* the other listers with a list() that calls GitLab::get
ListSamples ==
  {OwnedLister_new, owned_search(OwnedLister_new, "my proj"),
   owned_archived(OwnedLister_new, TRUE),
   SingleProjectLister_new(ListingId_NamespaceProject("group/project")),
   SingleProjectLister_new(ListingId_Id(123))}

InitClient ==
  /\ pc = "client"
  /\ server_projects = <<>>
  /\ server_items = <<>>
  /\ server_default_per_page = 20
  /\ op = "none"
  /\ namespace = "" /\ name = "" /\ iid = 0
  /\ gp_pagination_page = 0
  /\ hl_pagination_page = 0
  /\ projects = <<>>
  /\ project = <<>>
  /\ found_items = <<>>
  /\ requests = <<>>
  /\ responses = <<>>
  /\ result = NoResult
  /\ NoPreviousCall
  /\ NoLister
  /\ NoSide

\* GitLab::new(domain, private_token)
GitLab_new ==
  /\ pc = "client"
  /\ client.result = NoResult
  /\ \E domain \in Domains, token \in Tokens, proxy \in HttpProxies :
       client' = [scheme |-> "https", domain |-> domain,
                  private_token |-> token, http_proxy |-> proxy,
                  result |-> new(domain, token, proxy)]
  /\ UNCHANGED <<call_vars, repeat_vars, builder_vars, pair_vars, listing_size,
                 pc, requests, url, debug>>

\* GitLab::new_insecure(domain, private_token)
GitLab_new_insecure ==
  /\ pc = "client"
  /\ client.result = NoResult
  /\ \E domain \in Domains, token \in Tokens, proxy \in HttpProxies :
       client' = [scheme |-> "http", domain |-> domain,
                  private_token |-> token, http_proxy |-> proxy,
                  result |-> new_insecure(domain, token, proxy)]
  /\ UNCHANGED <<call_vars, repeat_vars, builder_vars, pair_vars, listing_size,
                 pc, requests, url, debug>>

\* gl.port(port)
GitLab_port ==
  /\ pc = "client"
  /\ client.result.ok
  /\ \E p \in Ports :
       client' = [client EXCEPT !.result.value = port(client.result.value, p)]
  /\ lister' = new_lister("none", 0)
  /\ log' = <<>>
  /\ requests' = <<>>
  /\ url' = ""
  /\ debug' = ""
  /\ UNCHANGED <<call_vars, repeat_vars, pair_vars, listing_size, pc, query>>

\* gl.scheme(scheme)
GitLab_scheme ==
  /\ pc = "client"
  /\ client.result.ok
  /\ \E sch \in Schemes :
       client' = [client EXCEPT !.result.value = scheme(client.result.value, sch)]
  /\ lister' = new_lister("none", 0)
  /\ log' = <<>>
  /\ requests' = <<>>
  /\ url' = ""
  /\ debug' = ""
  /\ UNCHANGED <<call_vars, repeat_vars, pair_vars, listing_size, pc, query>>

\* gl.version(): GitLab::get of the query version, without pagination
GitLab_version ==
  /\ pc = "client"
  /\ client.result.ok
  /\ lister' = new_lister("none", 0)
  /\ log' = <<[op |-> "version", arg |-> <<>>, before |-> new_lister("none", 0)]>>
  /\ requests' = <<[resource |-> "version", project_id |-> None, search |-> "",
                   query |-> "version", page |-> None, per_page |-> None]>>
  /\ url' = get_url(client.result.value, "version", None, None)
  /\ debug' = ""
  /\ UNCHANGED <<call_vars, repeat_vars, pair_vars, listing_size, pc, client,
                 query>>

\* list() of a lister that holds the client: GitLab::get builds the URL
Lister_list ==
  /\ pc = "client"
  /\ client.result.ok
  /\ \E l \in MergeRequestsSamples \cup ListSamples :
       /\ lister' = l
       /\ log' = <<[op |-> "list", arg |-> <<>>, before |-> l]>>
       /\ requests' = <<list(l)>>
       /\ url' = get_url(client.result.value, list(l).query, list(l).page,
                         list(l).per_page)
  /\ debug' = ""
  /\ UNCHANGED <<call_vars, repeat_vars, pair_vars, listing_size, pc, client,
                 query>>

\* list_paginated(page, per_page) of a lister that holds the client
Lister_list_paginated ==
  /\ pc = "client"
  /\ client.result.ok
  /\ \E l \in MergeRequestsSamples, page \in {1, 2}, per_page \in {20, 50} :
       LET r == list_paginated(l, page, per_page)
       IN /\ lister' = l
          /\ log' = <<[op |-> "list_paginated", arg |-> <<page, per_page>>,
                       before |-> l]>>
          /\ requests' = <<r>>
          /\ url' = get_url(client.result.value, r.query, r.page, r.per_page)
  /\ debug' = ""
  /\ UNCHANGED <<call_vars, repeat_vars, pair_vars, listing_size, pc, client,
                 query>>

\* format!("{:?}", gl)
GitLab_fmt_debug ==
  /\ pc = "client"
  /\ client.result.ok
  /\ debug' = fmt_debug(client.result.value)
  /\ lister' = new_lister("none", 0)
  /\ log' = <<>>
  /\ requests' = <<>>
  /\ url' = ""
  /\ UNCHANGED <<call_vars, repeat_vars, pair_vars, listing_size, pc, client,
                 query>>

\* format!("{:?}", lister) for a lister that holds the client
Lister_fmt_debug ==
  /\ pc = "client"
  /\ client.result.ok
  /\ \E l \in MergeRequestsSamples :
       /\ lister' = l
       /\ debug' = merge_requests_lister_debug(client.result.value, l)
  /\ log' = <<>>
  /\ requests' = <<>>
  /\ url' = ""
  /\ UNCHANGED <<call_vars, repeat_vars, pair_vars, listing_size, pc, client,
                 query>>

NextClient ==
  \/ GitLab_new
  \/ GitLab_new_insecure
  \/ GitLab_port
  \/ GitLab_scheme
  \/ GitLab_version
  \/ Lister_list
  \/ Lister_list_paginated
  \/ GitLab_fmt_debug
  \/ Lister_fmt_debug

SpecClient == InitClient /\ [][NextClient]_vars

(***************************************************************************)
(* Two listings of projects in the hands of a caller: the setters are      *)
(* called on one or the other, and build_query on both.                    *)
(***************************************************************************)
\* the search texts given to the two listings
PairSearchTexts == {"x", "x&simple=true", "a=b?c"}

InitPair ==
  /\ pc = "pair"
  /\ server_projects = <<>>
  /\ server_items = <<>>
  /\ server_default_per_page = 20
  /\ op = "none"
  /\ namespace = "" /\ name = "" /\ iid = 0
  /\ gp_pagination_page = 0
  /\ hl_pagination_page = 0
  /\ projects = <<>>
  /\ project = <<>>
  /\ found_items = <<>>
  /\ requests = <<>>
  /\ responses = <<>>
  /\ result = NoResult
  /\ NoPreviousCall
  /\ lister = Listing_new
  /\ log = <<>>
  /\ query = ""
  /\ client = NoClient
  /\ url = ""
  /\ debug = ""
  /\ other = Listing_new
  /\ other_query = ""
  /\ listing_size = 0

\* a setter was called on one of the two listings
PairSet(first, second) ==
  /\ pc = "pair"
  /\ lister' = first
  /\ other' = second
  /\ query' = ""
  /\ other_query' = ""
  /\ UNCHANGED <<call_vars, repeat_vars, client_vars, listing_size, pc,
                 requests, log>>

Pair_archived ==
  \E v \in BOOLEAN :
    \/ PairSet(listing_archived(lister, v), other)
    \/ PairSet(lister, listing_archived(other, v))
Pair_visibility ==
  \/ PairSet(listing_visibility(lister, "Public"), other)
  \/ PairSet(lister, listing_visibility(other, "Public"))
Pair_order_by ==
  \/ PairSet(listing_order_by(lister, "Name"), other)
  \/ PairSet(lister, listing_order_by(other, "Name"))
Pair_sort ==
  \/ PairSet(listing_sort(lister, "Asc"), other)
  \/ PairSet(lister, listing_sort(other, "Asc"))
Pair_search ==
  \E v \in PairSearchTexts :
    \/ PairSet(listing_search(lister, v), other)
    \/ PairSet(lister, listing_search(other, v))
Pair_simple ==
  \E v \in BOOLEAN :
    \/ PairSet(listing_simple(lister, v), other)
    \/ PairSet(lister, listing_simple(other, v))

\* build_query of both listings
Pair_build_query ==
  /\ pc = "pair"
  /\ query = ""
  /\ query' = build_query(lister)
  /\ other_query' = build_query(other)
  /\ UNCHANGED <<call_vars, repeat_vars, client_vars, listing_size, pc,
                 requests, log, lister, other>>

NextPair ==
  \/ Pair_archived
  \/ Pair_visibility
  \/ Pair_order_by
  \/ Pair_sort
  \/ Pair_search
  \/ Pair_simple
  \/ Pair_build_query

SpecPair == InitPair /\ [][NextPair]_vars

(***************************************************************************)
(* The page counter of high_level_get over long listings.  The listing is  *)
(* known by its size only and none of its items has the wanted iid, every  *)
(* fetch succeeds; the counter has the width of list_paginated's page      *)
(* argument, u16.                                                          *)
(***************************************************************************)
U16Max == 65535

\* the sizes of the listings: short ones, and ones of about U16Max pages
ListingSizes ==
  {0, 3, 20, 43, (U16Max - 1) * 20 + 3, U16Max * 20 - 1, U16Max * 20,
   U16Max * 20 + 3}

\* the number of items on a page of the listing of n items
PageCount(n, page) ==
  IF page = 0 THEN 0
  ELSE Min(hl_pagination_per_page,
           IF n > (page - 1) * hl_pagination_per_page
             THEN n - (page - 1) * hl_pagination_per_page ELSE 0)

\* how many turns of the loop are taken as one step
PageJumps == {16, 256, 4096}

InitPages ==
  /\ pc = "hl_pages"
  /\ listing_size \in ListingSizes
  /\ hl_pagination_page = 1
  /\ op \in {"get_issue", "get_merge_request"}
  /\ server_projects = <<>>
  /\ server_items = <<>>
  /\ server_default_per_page = 20
  /\ namespace = "" /\ name = "" /\ iid = 0
  /\ gp_pagination_page = 0
  /\ projects = <<>>
  /\ project = <<>>
  /\ found_items = <<>>
  /\ requests = <<>>
  /\ responses = <<>>
  /\ result = NoResult
  /\ NoPreviousCall
  /\ NoLister
  /\ client = NoClient
  /\ url = ""
  /\ debug = ""
  /\ other = new_lister("none", 0)
  /\ other_query = ""

\* pagination_page += 1 on a u16: past U16Max a build with overflow checks
\* panics and a build without them wraps around to 0
bump_page ==
  IF hl_pagination_page + 1 <= U16Max
    THEN /\ hl_pagination_page' = hl_pagination_page + 1
         /\ UNCHANGED <<pc, result>>
    ELSE \/ /\ result' = Panic("attempt to add with overflow")
            /\ pc' = "done"
            /\ UNCHANGED hl_pagination_page
         \/ /\ hl_pagination_page' = (hl_pagination_page + 1) % (U16Max + 1)
            /\ UNCHANGED <<pc, result>>

\* one turn of high_level_get's loop: the page is fetched and holds no match
high_level_get_turn ==
  /\ pc = "hl_pages"
  /\ IF high_level_get_break(FALSE, PageCount(listing_size, hl_pagination_page),
                             hl_pagination_per_page)
       THEN /\ result' = high_level_get_return(<<>>, iid)
            /\ pc' = "done"
            /\ UNCHANGED hl_pagination_page
       ELSE bump_page
  /\ UNCHANGED <<server_projects, server_items, server_default_per_page, op,
                 namespace, name, iid, gp_pagination_page, projects, project,
                 found_items, requests, responses, repeat_vars, builder_vars,
                 client_vars, pair_vars, listing_size>>

\* k turns of the loop as one step, when the k pages from the current one
\* are full: each of these turns only adds 1 to the counter
high_level_get_turns ==
  /\ pc = "hl_pages"
  /\ \E k \in PageJumps :
       /\ hl_pagination_page >= 1
       /\ hl_pagination_page + k <= U16Max
       /\ listing_size >= (hl_pagination_page + k - 1) * hl_pagination_per_page
       /\ hl_pagination_page' = hl_pagination_page + k
  /\ UNCHANGED <<server_projects, server_items, server_default_per_page, op,
                 namespace, name, iid, gp_pagination_page, projects, project,
                 found_items, requests, responses, repeat_vars, builder_vars,
                 client_vars, pair_vars, listing_size, pc, result>>

NextPages ==
  \/ high_level_get_turn
  \/ high_level_get_turns

SpecPages == InitPages /\ [][NextPages]_vars

(***************************************************************************)
(* Vocabulary of the properties of the listers.                            *)
(***************************************************************************)
ListCalls == {"list", "list_paginated"}
NoSetterCalled == \A k \in 1..Len(log) : log[k].op \in ListCalls

\* the keys of a lister type in their declared order
DeclaredKeys(kind) ==
  CASE kind = "merge_requests" -> <<"iid", "state", "order_by", "sort">>
    [] kind = "projects" ->
         <<"archived", "visibility", "order_by", "sort", "search", "simple">>
    [] kind = "projects_owned" ->
         <<"archived", "visibility", "order_by", "sort", "search">>
    [] OTHER -> <<>>

\* the fixed string of an enum value
EnumText(v) ==
  CASE v = "Merged" -> "merged" [] v = "Opened" -> "opened"
    [] v = "Closed" -> "closed" [] v = "All" -> "all"
    [] v = "Id" -> "id" [] v = "Name" -> "name" [] v = "Path" -> "path"
    [] v = "CreatedAt" -> "created_at" [] v = "UpdatedAt" -> "updated_at"
    [] v = "LastActivityAt" -> "last_activity_at"
    [] v = "Asc" -> "asc" [] v = "Desc" -> "desc"
    [] v = "Public" -> "public" [] v = "Internal" -> "internal"
    [] v = "Private" -> "private"

\* the positions of q right after the ? or an &
KeyStarts(q) == {i \in 2..Len(q) : SubSeq(q, i - 1, i - 1) \in {"?", "&"}}

\* the key is written at position i of q
KeyAt(q, i, key) ==
  /\ i + Len(key) - 1 <= Len(q)
  /\ SubSeq(q, i, i + Len(key) - 1) = key

\* the first of the positions where the key is written, 0 if there is none
KeyPos(q, starts, key) ==
  LET at == {i \in starts : KeyAt(q, i, key)}
  IN IF at = {} THEN 0 ELSE CHOOSE i \in at : \A j \in at : i <= j

\* the pair key=text stands at position i of q and ends there
PairAt(q, i, key, text) ==
  LET pair == key \o "=" \o text
      end == i + Len(pair) - 1
  IN /\ end <= Len(q)
     /\ SubSeq(q, i, end) = pair
     /\ (end = Len(q) \/ SubSeq(q, end + 1, end + 1) = "&")

\* is the key of lister l due in the query: "yes", "no", or "open" where
\* another property decides (a search text or iid list that is empty)
KeyDue(l, key) ==
  CASE key = "iid" ->
         IF l.iid = None THEN "no"
         ELSE IF Unwrap(l.iid) = <<>> THEN "open" ELSE "yes"
    [] key = "search" /\ l.kind = "projects_owned" ->
         IF l.search_opt = None THEN "no"
         ELSE IF Unwrap(l.search_opt) = "" THEN "open" ELSE "yes"
    [] key = "search" /\ l.kind # "projects_owned" ->
         IF l.search = "" THEN "no" ELSE "yes"
    [] OTHER -> IF l[key] = None THEN "no" ELSE "yes"

\* the pair of the key, at position i of q, has the value of the field
ValueWritten(q, i, l, key) ==
  CASE key \in {"archived", "simple"} ->
         PairAt(q, i, key, IF Unwrap(l[key]) THEN "true" ELSE "false")
    [] key = "search" -> l.kind = "projects" => PairAt(q, i, key, l.search)
    [] key = "iid" -> TRUE
    [] OTHER -> PairAt(q, i, key, EnumText(Unwrap(l[key])))

(***************************************************************************)
(* C14.  Whatever the filters and the order of the setter calls,           *)
(* build_query writes the keys that are set, and no other, in the order    *)
(* they are declared (merge requests: iid, state, order_by, sort;          *)
(* projects: archived, visibility, order_by, sort, search, simple),        *)
(* booleans as true/false and enums by their fixed strings; iid [456,      *)
(* 789], then sort Asc, then order_by CreatedAt on project 123 gives       *)
(* projects/123/merge_requests?iid[]=456&iid[]=789&order_by=created_at     *)
(* &sort=asc.                                                              *)
(***************************************************************************)
C14_KeysInDeclaredOrder ==
  query # "" =>
    LET keys == DeclaredKeys(lister.kind)
        starts == KeyStarts(query)
        pos == [k \in 1..Len(keys) |-> KeyPos(query, starts, keys[k])]
    IN /\ \A k \in 1..Len(keys) :
            /\ KeyDue(lister, keys[k]) = "yes" =>
                 /\ pos[k] > 0
                 /\ ValueWritten(query, pos[k], lister, keys[k])
            /\ KeyDue(lister, keys[k]) = "no" => pos[k] = 0
       /\ \A j \in 1..Len(keys), k \in 1..Len(keys) :
            (j < k /\ pos[j] > 0 /\ pos[k] > 0) => pos[j] < pos[k]
       /\ ( /\ lister.kind = "merge_requests"
            /\ lister.id = 123
            /\ Len(log) = 3
            /\ log[1].op = "iid" /\ log[1].arg = <<456, 789>>
            /\ log[2].op = "sort" /\ log[2].arg = "Asc"
            /\ log[3].op = "order_by" /\ log[3].arg = "CreatedAt" )
          => query = "projects/123/merge_requests?iid[]=456&iid[]=789"
                       \o "&order_by=created_at&sort=asc"

\* build_query after iid, sort and order_by were set in that order
C14_Witness ==
  /\ lister.kind = "merge_requests"
  /\ Len(log) = 3
  /\ log[1].op = "iid" /\ log[2].op = "sort" /\ log[3].op = "order_by"
  /\ query = "projects/123/merge_requests?iid[]=456&iid[]=789"
               \o "&order_by=created_at&sort=asc"

\* the decimal text of the project ids the listers are constructed with
IdText(id) == CASE id = 123 -> "123" [] id = 45 -> "45"

\* the path of a single project
SinglePath(id) ==
  CASE id.tag = "Id" -> "projects/" \o IdText(id.n)
    [] id.s = "group/project" -> "projects/group%2Fproject"
    [] id.s = "a/b/c" -> "projects/a%2Fb%2Fc"
    [] id.s = "solo" -> "projects/solo"

\* the resource path of a lister
BarePath(l) ==
  CASE l.kind = "projects" -> "projects"
    [] l.kind = "project" -> SinglePath(l.listing_id)
    [] l.kind = "projects_owned" -> "projects/owned"
    [] l.kind = "groups_owned" -> "groups/owned"
    [] l.kind = "merge_requests" ->
         "projects/" \o IdText(l.id) \o "/merge_requests"

(***************************************************************************)
(* C15.  With no filter set, build_query returns exactly the bare resource *)
(* path, with no ?: projects, projects/owned, groups/owned, and            *)
(* projects/{id}/merge_requests for the project id of the lister; a        *)
(* request made by list or list_paginated carries the same path.           *)
(***************************************************************************)
C15_BarePathWithoutFilters ==
  (pc = "builder" /\ NoSetterCalled) =>
    /\ query # "" =>
         /\ query = BarePath(lister)
         /\ ~Contains(query, "?")
    /\ \A k \in 1..Len(requests) : requests[k].query = BarePath(lister)

\* build_query on a fresh owned::ProjectsLister
C15_Witness ==
  /\ lister.kind = "projects_owned"
  /\ log = <<>>
  /\ query = "projects/owned"

\* build_query on a fresh MergeRequestsLister of project 45, after a list
C15_WitnessMergeRequests ==
  /\ lister.kind = "merge_requests"
  /\ lister.id = 45
  /\ Len(log) = 1
  /\ query = "projects/45/merge_requests"

\* the decimal text of the iids the setter is called with
IidText(v) == CASE v = 456 -> "456" [] v = 789 -> "789"

\* iid[]=v_k&iid[]=v_k+1&... for the values of v from the k-th on
RECURSIVE IidArrayPairs(_, _)
IidArrayPairs(v, k) ==
  IF k = Len(v) THEN "iid[]=" \o IidText(v[k])
  ELSE "iid[]=" \o IidText(v[k]) \o "&" \o IidArrayPairs(v, k + 1)

\* the pairs of a list of one or more iids
IidPairs(v) == IF Len(v) = 1 THEN "iid=" \o IidText(v[1]) ELSE IidArrayPairs(v, 1)

(***************************************************************************)
(* C16.  The iid filter of the merge requests is written as iid=v when the *)
(* list has one value, and as iid[]=v1&iid[]=v2&... with one iid[]= pair   *)
(* per value, in the order of the caller, when it has two or more; the     *)
(* pairs come first in the query and no other iid pair follows them.       *)
(***************************************************************************)
C16_IidSerialisation ==
  ( /\ lister.kind = "merge_requests"
    /\ query # ""
    /\ lister.iid # None
    /\ Unwrap(lister.iid) # <<>> ) =>
    LET v == Unwrap(lister.iid)
        head == BarePath(lister) \o "?" \o IidPairs(v)
        n == Len(head)
    IN /\ Len(query) >= n
       /\ SubSeq(query, 1, n) = head
       /\ Len(query) > n =>
            /\ SubSeq(query, n + 1, n + 1) = "&"
            /\ ~Contains(SubSeq(query, n + 1, Len(query)), "iid")
       /\ Len(v) = 1 => ~Contains(query, "iid[]=")
       /\ Len(v) >= 2 => ~Contains(query, "iid=")

\* build_query with two iids, in the order given, and a state
C16_Witness ==
  /\ lister.kind = "merge_requests"
  /\ lister.iid = Some(<<789, 456>>)
  /\ query = "projects/45/merge_requests?iid[]=789&iid[]=456&state=opened"

\* build_query with a single iid
C16_WitnessSingle ==
  /\ lister.kind = "merge_requests"
  /\ lister.iid = Some(<<456>>)
  /\ query = "projects/123/merge_requests?iid=456"

\* the last character of a string
LastChar(q) == SubSeq(q, Len(q), Len(q))

(***************************************************************************)
(* C17.  For every filter state the setters can reach, the empty iid list  *)
(* included, the string build_query returns does not end with ? or &, and  *)
(* holds neither ?& nor &&: a ? is there only if a key=value pair follows. *)
(***************************************************************************)
C17_NoDanglingSeparator ==
  query # "" =>
    /\ LastChar(query) \notin {"?", "&"}
    /\ ~Contains(query, "?&")
    /\ ~Contains(query, "&&")
    /\ Contains(query, "?") => Contains(query, "=")

(***************************************************************************)
(* C18.  An empty search text is left out of the query: on the projects    *)
(* listing and on the owned-projects lister, once search("") is the last   *)
(* search call, build_query writes no search key, and with no other filter *)
(* set it returns the bare resource path.                                  *)
(***************************************************************************)
\* the argument of the last call of the setter in the log, as a Some
LastArg(opname) ==
  LET at == {k \in 1..Len(log) : log[k].op = opname}
  IN IF at = {} THEN None
     ELSE Some(log[CHOOSE k \in at : \A j \in at : j <= k].arg)

C18_EmptySearchOmitted ==
  ( /\ lister.kind \in {"projects", "projects_owned"}
    /\ query # ""
    /\ LastArg("search") = Some("") ) =>
    /\ ~Contains(query, "search")
    /\ (\A k \in 1..Len(log) : log[k].op \in ListCalls \cup {"search"})
         => query = BarePath(lister)

\* the lister after the setter named opname is called on l with arg
ApplySetter(l, opname, arg) ==
  CASE l.kind = "merge_requests" /\ opname = "iid" -> mr_iid(l, arg)
    [] l.kind = "merge_requests" /\ opname = "state" -> mr_state(l, arg)
    [] l.kind = "merge_requests" /\ opname = "order_by" -> mr_order_by(l, arg)
    [] l.kind = "merge_requests" /\ opname = "sort" -> mr_sort(l, arg)
    [] l.kind = "projects" /\ opname = "archived" -> listing_archived(l, arg)
    [] l.kind = "projects" /\ opname = "visibility" -> listing_visibility(l, arg)
    [] l.kind = "projects" /\ opname = "order_by" -> listing_order_by(l, arg)
    [] l.kind = "projects" /\ opname = "sort" -> listing_sort(l, arg)
    [] l.kind = "projects" /\ opname = "search" -> listing_search(l, arg)
    [] l.kind = "projects" /\ opname = "simple" -> listing_simple(l, arg)
    [] l.kind = "projects_owned" /\ opname = "archived" -> owned_archived(l, arg)
    [] l.kind = "projects_owned" /\ opname = "visibility" ->
         owned_visibility(l, arg)
    [] l.kind = "projects_owned" /\ opname = "order_by" -> owned_order_by(l, arg)
    [] l.kind = "projects_owned" /\ opname = "sort" -> owned_sort(l, arg)
    [] l.kind = "projects_owned" /\ opname = "search" -> owned_search(l, arg)

\* the field a setter writes, and what it holds once arg is stored in it
FieldOfSetter(l, opname) ==
  IF opname = "search" /\ l.kind = "projects_owned" THEN "search_opt"
  ELSE opname
Stored(l, opname, arg) ==
  IF opname = "search" /\ l.kind = "projects" THEN arg ELSE Some(arg)

(***************************************************************************)
(* C19.  Every setter overwrites: after the same setter is called with a   *)
(* and then with b, the field holds b and build_query returns what it      *)
(* returns when the setter is called once with b; called twice with the    *)
(* same value, it returns what it returns after the first of the calls.    *)
(***************************************************************************)
C19_SettersOverwrite ==
  ( /\ query # ""
    /\ Len(log) >= 2
    /\ log[Len(log)].op = log[Len(log) - 1].op
    /\ log[Len(log)].op \notin ListCalls ) =>
    LET first == log[Len(log) - 1]
        second == log[Len(log)]
    IN /\ lister[FieldOfSetter(lister, second.op)]
            = Stored(lister, second.op, second.arg)
       /\ query = build_query(ApplySetter(first.before, second.op, second.arg))
       /\ second.arg = first.arg => query = build_query(second.before)

\* iid([456]) then iid([789]) on a merge requests lister, then build_query
C19_Witness ==
  /\ lister.kind = "merge_requests"
  /\ Len(log) = 2
  /\ log[1].op = "iid" /\ log[1].arg = <<456>>
  /\ log[2].op = "iid" /\ log[2].arg = <<789>>
  /\ query = "projects/123/merge_requests?iid=789"

\* the filter fields of the listers
FilterFields ==
  {"iid", "state", "order_by", "sort", "archived", "visibility", "search",
   "search_opt", "simple"}

\* a string starts with another
StartsWith(s, str) == Len(s) >= Len(str) /\ SubSeq(s, 1, Len(str)) = str

\* one step of a lister: which fields it may change
FrameOfStep ==
  /\ lister'.id = lister.id
  /\ lister'.kind = lister.kind
  /\ \A f \in FilterFields :
       lister'[f] # lister[f] =>
         /\ Len(log') = Len(log) + 1
         /\ FieldOfSetter(lister, Last(log').op) = f
  /\ (Len(log') = Len(log) + 1 /\ Last(log').op \in ListCalls) =>
       /\ lister' = lister
       /\ Len(requests') = Len(requests) + 1
       /\ Last(requests').query = build_query(lister)
  /\ (query' # query /\ query' # "") =>
       /\ lister' = lister
       /\ log' = log

\* what holds of a merge requests lister after any calls
FrameOfLister ==
  /\ \A k \in 1..Len(log) :
       (\A i \in k..Len(log) : log[i].op \in ListCalls)
         => build_query(log[k].before) = build_query(lister)
  /\ lister.kind = "merge_requests" =>
       /\ \A k \in 1..Len(log) : log[k].before.id = lister.id
       /\ query # "" => StartsWith(query, BarePath(lister))
       /\ \A k \in 1..Len(requests) :
            /\ StartsWith(requests[k].query, BarePath(lister))
            /\ requests[k].project_id = Some(lister.id)

(***************************************************************************)
(* C20.  The state of a lister is changed by its setters only, and each    *)
(* setter changes its own field only: build_query, list and list_paginated *)
(* leave every filter field and the project id as they are (build_query    *)
(* returns the same string before and after any number of list and         *)
(* list_paginated calls), no setter changes the project id given at        *)
(* construction, and every query of a MergeRequestsLister starts with      *)
(* projects/{id}/merge_requests for that id.                               *)
(***************************************************************************)
C20_SettersOnlyChangeOwnField == [][FrameOfStep]_vars /\ []FrameOfLister

\* state, then list_paginated, then sort on the lister of project 45
C20_Witness ==
  /\ lister.kind = "merge_requests"
  /\ lister.id = 45
  /\ Len(log) = 3
  /\ log[1].op = "state"
  /\ log[2].op = "list_paginated"
  /\ log[3].op = "sort"
  /\ Len(requests) = 1
  /\ requests[1].query = "projects/45/merge_requests?state=merged"
  /\ query = "projects/45/merge_requests?state=merged&sort=desc"

(***************************************************************************)
(* C21.  The lister of a single project builds projects/{n} for            *)
(* ListingId::Id(n), and for a namespace/name identifier projects/ and the *)
(* identifier with every / replaced by %2F (group/project gives            *)
(* projects/group%2Fproject): the id segment holds no /.                   *)
(***************************************************************************)
C21_SingleProjectPath ==
  lister.kind = "project" =>
    /\ query # "" =>
         /\ query = SinglePath(lister.listing_id)
         /\ StartsWith(query, "projects/")
         /\ ~Contains(SubSeq(query, Len("projects/") + 1, Len(query)), "/")
    /\ \A k \in 1..Len(requests) :
         /\ requests[k].query = SinglePath(lister.listing_id)
         /\ ~Contains(SubSeq(requests[k].query, Len("projects/") + 1,
                             Len(requests[k].query)), "/")

\* build_query for the identifier a/b/c
C21_Witness ==
  /\ lister.kind = "project"
  /\ lister.listing_id = ListingId_NamespaceProject("a/b/c")
  /\ query = "projects/a%2Fb%2Fc"

\* build_query for the identifier group/project, after a list
C21_WitnessExample ==
  /\ lister.kind = "project"
  /\ Len(requests) = 1
  /\ query = "projects/group%2Fproject"

(***************************************************************************)
(* Vocabulary of the properties of the client.                             *)
(***************************************************************************)
\* the client that was constructed
TheClient == client.result.value

\* the decimal text of the ports and of the pagination values
NumberText(n) ==
  CASE n = 1 -> "1" [] n = 2 -> "2" [] n = 20 -> "20" [] n = 50 -> "50"
    [] n = 80 -> "80" [] n = 81 -> "81" [] n = 443 -> "443"

\* the start of the URLs of a client, without and with its port
BaseWithoutPort(gl) ==
  gl.url.scheme \o "://" \o Unwrap(gl.url.host) \o "/api/v3/"
BaseWithPort(gl) ==
  gl.url.scheme \o "://" \o Unwrap(gl.url.host)
    \o (IF gl.url.port = None THEN "" ELSE ":" \o NumberText(Unwrap(gl.url.port)))
    \o "/api/v3/"

\* every position of u where str is written
Occurrences(u, str) == {i \in 1..Len(u) : KeyAt(u, i, str)}

\* the text of the pagination a call asks for
PaginationText(call) ==
  IF call.op = "list_paginated"
    THEN "&page=" \o NumberText(call.arg[1])
           \o "&per_page=" \o NumberText(call.arg[2])
  ELSE ""

\* the token is written once in the URL, as a parameter of its own, after
\* every filter parameter, and only the pagination of the call follows it
TokenThenPagination ==
  LET pair == "private_token=" \o TheClient.private_token
      at == Occurrences(url, pair)
  IN /\ Cardinality(at) = 1
     /\ \A i \in at :
          /\ i \in KeyStarts(url)
          /\ \A j \in KeyStarts(url) :
               (\E k \in 1..Len(DeclaredKeys(lister.kind)) :
                  KeyAt(url, j, DeclaredKeys(lister.kind)[k])) => j < i
          /\ SubSeq(url, i + Len(pair), Len(url)) = PaginationText(log[1])
     /\ \A k \in 1..Len(DeclaredKeys(lister.kind)) :
          KeyDue(lister, DeclaredKeys(lister.kind)[k]) = "yes" =>
            KeyPos(url, KeyStarts(url), DeclaredKeys(lister.kind)[k]) # 0

(***************************************************************************)
(* C22.  In every URL GitLab::get builds, private_token={token} is written *)
(* once and after all filter parameters; list() adds neither page nor      *)
(* per_page and list_paginated(page, per_page) adds both, page then        *)
(* per_page, after the token.  The URL begins with                         *)
(* {scheme}://{host}/api/v3/, or with {scheme}://{host}:{port}/api/v3/     *)
(* when the client was given a port that is not the default of its scheme. *)
(***************************************************************************)
C22_TokenAfterFilters ==
  url # "" =>
    /\ TokenThenPagination
    /\ StartsWith(url, BaseWithPort(TheClient))

\* C22 as it is stated: the URL begins with {scheme}://{host}/api/v3/
C22_AsStated ==
  url # "" =>
    /\ TokenThenPagination
    /\ StartsWith(url, BaseWithoutPort(TheClient))

\* a page of merge requests with two filters, from a client with port 81
C22_Witness ==
  /\ url # ""
  /\ log[1].op = "list_paginated"
  /\ lister.iid = Some(<<456, 789>>)
  /\ TheClient.url.port = Some(81)

\* the URL of the documentation of build_url, with a filter
C22_WitnessList ==
  /\ url = "https://gitlab.com/api/v3/projects/owned?archived=true&private_token=XXXXXXXXXXXXXXXXXXXX"
  /\ log[1].op = "list"

\* a client was asked for, with these arguments
Constructed == client.result # NoResult
\* the hosts of the inputs that are domain names as they are
ValidHosts == {"gitlab.com", "localhost", "gitlab.example.com"}
\* the error of the token check
TokenError == <<"private token should be a 20 characters string">>

\* a token of another length than 20 is refused by the token check, whatever
\* the host is, and nothing is sent
WrongLengthRefused ==
  (Constructed /\ Len(client.private_token) # 20) =>
    /\ ~client.result.ok
    /\ client.result.err = TokenError
    /\ requests = <<>>
    /\ url = ""

(***************************************************************************)
(* C23.  GitLab::new and new_insecure fail for every token whose length is *)
(* not 20 (0, 1, 19, 21) and succeed for a token of 20 characters with a   *)
(* valid host; the token is checked before the host is examined and before *)
(* any request is built, so nothing is sent on failure.                    *)
(***************************************************************************)
C23_TokenLength ==
  /\ WrongLengthRefused
  /\ (Constructed /\ Len(client.private_token) = 20
        /\ client.domain \in ValidHosts) => client.result.ok

(***************************************************************************)
(* C24.  Construction fails for every host that starts or ends with a dot  *)
(* (.gitlab.com, .gitlab, gitlab., gitlab.com.) and succeeds for           *)
(* gitlab.com and localhost with a valid token, with the https and with    *)
(* the http constructor.                                                   *)
(***************************************************************************)
C24_DotsAtTheEnds ==
  Constructed =>
    /\ (client.domain # ""
          /\ (SubSeq(client.domain, 1, 1) = "." \/ LastChar(client.domain) = "."))
         => ~client.result.ok
    /\ (client.domain \in {"gitlab.com", "localhost"}
          /\ Len(client.private_token) = 20
          /\ client.scheme \in {"https", "http"}) => client.result.ok

(***************************************************************************)
(* C26.  Construction succeeds only if the URL parsed from                 *)
(* {scheme}://{domain}/api/v3/ has a host and the host is the domain as it *)
(* was given; an empty domain, a domain with a / and a domain with a       *)
(* scheme before it (http:/gitlab.com, http:///gitlab.com) are refused     *)
(* with an error, not normalised.                                          *)
(***************************************************************************)
C26_HostIsTheDomain ==
  Constructed =>
    /\ client.result.ok =>
         /\ TheClient.url.host = Some(client.domain)
         /\ client.domain \in ValidHosts
    /\ (\/ client.domain = ""
        \/ Contains(client.domain, "/")
        \/ client.domain \in {"http:/gitlab.com", "http:///gitlab.com"}) =>
         /\ ~client.result.ok
         /\ ~Panicked(client.result)
         /\ (Len(client.private_token) = 20 =>
               client.result.err[1] = "invalid URL")

\* a domain with a scheme before it and a valid token: refused
C26_Witness ==
  /\ Constructed
  /\ client.domain = "http:///gitlab.com"
  /\ Len(client.private_token) = 20
  /\ ~client.result.ok

\* a domain that is the host of its URL: accepted
C26_WitnessAccepted ==
  /\ Constructed
  /\ client.result.ok
  /\ client.domain = "gitlab.example.com"

\* the tokens a client can hold, and the mask
ClientTokens == {t \in Tokens : Len(t) = 20}
Mask == "XXXXXXXXXXXXXXXXXXXX"

\* the rendering with {:?} of what was rendered, had the client the token t
DebugWithToken(t) ==
  LET gl == [TheClient EXCEPT !.private_token = t]
  IN IF lister.kind = "merge_requests"
       THEN merge_requests_lister_debug(gl, lister)
     ELSE fmt_debug(gl)

(***************************************************************************)
(* C28.  The Debug rendering of a client, and of a lister that holds one,  *)
(* does not depend on the private token: clients that differ only in the   *)
(* token give the same text, which shows XXXXXXXXXXXXXXXXXXXX in the place *)
(* of the token.                                                           *)
(***************************************************************************)
C28_DebugHidesToken ==
  debug # "" =>
    /\ \A t \in ClientTokens : DebugWithToken(t) = debug
    /\ Contains(debug, "private_token: " \o Mask \o " }")
    /\ TheClient.private_token # Mask => ~Contains(debug, TheClient.private_token)

\* a lister of a client whose token is not the mask was rendered
C28_Witness ==
  /\ debug # ""
  /\ lister.kind = "merge_requests"
  /\ TheClient.private_token = "abcdefghij0123456789"

\* the client itself was rendered, with a token that is not the mask
C28_WitnessClient ==
  /\ debug = "GitLab { scheme: http, domain: gitlab.com, port: 81, private_token: XXXXXXXXXXXXXXXXXXXX }"
  /\ TheClient.private_token = "ABCDEFGHIJ-_23456789"

(***************************************************************************)
(* Vocabulary of the errors of one fetch.                                  *)
(***************************************************************************)
StatusError == "status code not 200 OK"
\* the statuses HTTP calls a success
SuccessStatus(o) == o.status >= 200 /\ o.status <= 299

\* the error a fetch ends with, for what happened to its request
FetchError(o) ==
  CASE ~o.send_ok -> "cannot send request"
    [] o.send_ok /\ ~o.read_ok -> "cannot read response body"
    [] o.send_ok /\ o.read_ok /\ o.status # 200 -> StatusError
    [] OTHER -> "cannot build Rust struct from JSON data"

\* the call ended with the error of its k-th fetch
EndedWithErrorOf(k) ==
  /\ k = Len(responses)
  /\ pc = "done"
  /\ ~result.ok
  /\ Last(result.err) = FetchError(responses[k])

\* every list() and list_paginated() of the call so far: one request each,
\* and a fetch that was not sent, not read, not answered with 200 or not
\* decoded ends the call with its error
OneRequestPerFetch ==
  /\ Len(requests) - Len(responses) \in {0, 1}
  /\ Len(requests) = Len(responses) <=> pc \notin {"gp_wait", "hl_wait"}
  /\ \A k \in 1..Len(responses) :
       ~Succeeded(responses[k]) => EndedWithErrorOf(k)
  /\ (pc = "done" /\ result.ok) => AllSucceeded

C25_WitnessDecode ==
  /\ Len(responses) >= 1
  /\ Last(responses).status = 200
  /\ ~Last(responses).decodes
  /\ EndedWithErrorOf(Len(responses))

\* the position of the first wanted project of the search results, and of
\* the first wanted item of the listing; 0 if there is none
FirstWantedProject ==
  IF ~HasWantedProject(server_projects) THEN 0
  ELSE CHOOSE i \in 1..Len(server_projects) :
         /\ IsWantedProject(server_projects[i])
         /\ \A j \in 1..(i - 1) : ~IsWantedProject(server_projects[j])
FirstWantedItem ==
  IF ~HasWantedItem(ResolvedListing) THEN 0
  ELSE CHOOSE i \in 1..Len(ResolvedListing) :
         /\ IsWantedItem(ResolvedListing[i])
         /\ \A j \in 1..(i - 1) : ~IsWantedItem(ResolvedListing[j])

\* the page of 20 a position lies on
PageOf(i) == (i - 1) \div 20 + 1

\* not-found is returned only when there is no match in the complete set
NotFoundOnlyIfAbsent ==
  (pc = "done" /\ AllSucceeded) =>
    /\ ProjectNotFound => ~HasWantedProject(server_projects)
    /\ ItemNotFound => ~HasWantedItem(ResolvedListing)

(***************************************************************************)
(* C27.  When every fetch succeeds, get_project returns not-found only if  *)
(* no project of the complete search results has the wanted namespace and  *)
(* name, and get_issue / get_merge_request only if no item of the complete *)
(* listing has the wanted iid; a match on a page after the first is found: *)
(* the search has ended with it once the page it lies on was due.          *)
(***************************************************************************)
C27_Completeness ==
  /\ NotFoundOnlyIfAbsent
  /\ (AllSucceeded /\ FirstWantedProject # 0) =>
       /\ Len(ProjectRequests) <= PageOf(FirstWantedProject)
       /\ (op = "get_project" /\ pc = "done") => result.ok
  /\ (AllSucceeded /\ FirstWantedItem # 0) =>
       /\ Len(ListingRequests) <= PageOf(FirstWantedItem)
       /\ pc = "done" => result.ok

(***************************************************************************)
(* C29.  build_query of the projects listing is injective on the filter    *)
(* fields: two listings that differ in archived, visibility, order_by,     *)
(* sort, search or simple never build the same query, also when a search   *)
(* text holds &, = or ?.                                                   *)
(***************************************************************************)
C29_BuildQueryInjective ==
  (/\ query # ""
   /\ other_query # ""
   /\ \E f \in {"archived", "visibility", "order_by", "sort", "search", "simple"} :
        lister[f] # other[f])
  => query # other_query

(***************************************************************************)
(* C30.  The page counter of the resolver loop is a u16 that starts at 1   *)
(* and grows by 1: for every listing size it stays within 1..65535 and     *)
(* the addition never overflows or wraps around, so it never comes back to *)
(* a page that was requested before.                                       *)
(***************************************************************************)
C30_PageCounterInRange ==
  pc \in {"hl_pages", "done"} =>
    /\ hl_pagination_page >= 1
    /\ hl_pagination_page <= 65535
    /\ ~Panicked(result)
    /\ (pc = "done" /\ ~result.ok) =>
         hl_pagination_page = listing_size \div 20 + 1

====
